---- MODULE Spec2Model ----
(***************************************************************************)
(* A model of gimme-that, a dependency-injection container.                *)
(*                                                                         *)
(* The repository is a stack of layers (SimpleRepository) wrapped in a     *)
(* LayeredRepository.  Every public call (get, add, register, context,     *)
(* pop, a read of a lazy attribute) is one action; the nested calls it     *)
(* makes are recursive operators that thread a "world" record              *)
(*     w = [layers, heap, log, rev]                                        *)
(* and return [w |-> the world afterwards, out |-> the outcome].           *)
(*                                                                         *)
(* Values are integers: n > 0 is the object heap[n], 0 is None, n < 0 is   *)
(* the int literal -n.  A missing key of `fields` is an unset attribute.   *)
(***************************************************************************)
EXTENDS Integers, Sequences, FiniteSets, TLC

VARIABLES layers, heap, last, hist, withs

vars == <<layers, heap, last, hist, withs>>

(***************************************************************************)
(* Bounds of the model.                                                    *)
(***************************************************************************)
MaxLayers == 2
MaxObjs == 3
MaxHist == 3

(***************************************************************************)
(* Small helpers.                                                          *)
(***************************************************************************)
EmptyMap == [x \in {} |-> 0]

NoKw == [given |-> FALSE, map |-> EmptyMap]

Kw(m) == [given |-> TRUE, map |-> m]

Last(s) == s[Len(s)]

Front(s) == SubSeq(s, 1, Len(s) - 1)

InSeq(x, s) == \E j \in 1..Len(s) : s[j] = x

Reverse(s) == [j \in 1..Len(s) |-> s[Len(s) + 1 - j]]

ClsKey(c) == [k |-> "cls", n |-> c]

StrKey(s) == [k |-> "str", n |-> s]

FnKey(f) == [k |-> "fn", n |-> f]

NoneArg == [k |-> "none", n |-> ""]

(***************************************************************************)
(* The classes and factory functions of the client program: the inputs on  *)
(* which the container works.  They are the classes of tests/test_gimme.py *)
(* (SimpleClass/Dependency, HasDependency, the A/B/C cycle, the lazy A/B   *)
(* pair, MyClass with an all-default constructor, int) and a Base/Derived  *)
(* pair in which the base class asks for an instance of its subclass.      *)
(***************************************************************************)
Classes ==
    {"object", "int", "Dependency", "HasDependency", "A", "B", "C",
     "LA", "LB", "Base", "Derived", "MyClass",
     "WantsList", "WantsSeq", "WantsSet", "WantsTuple",
     "WantsDict", "WantsPair", "WantsNested",
     "MyList", "list", "other.Dependency", "Eager", "Eager2",
     "UnresolvableClass", "Blocked", "Wrapped", "WantsOptional"}

Functions == {"mk42", "factory"}

Mro(c) ==
    CASE c = "object" -> <<"object">>
      [] c = "Derived" -> <<"Derived", "Base", "object">>
      [] c = "MyList" -> <<"MyList", "list", "object">>
      [] OTHER -> <<c, "object">>

\* cls.__name__: other.Dependency is a second class named Dependency, defined
\* in another module
ClassName(c) == IF c = "other.Dependency" THEN "Dependency" ELSE c

\* getattr(i, "__name__", str(i)) of a key of the lookup stack
NameOf(key) == IF key.k = "cls" THEN ClassName(key.n) ELSE key.n

Ann(k, c) == [k |-> k, c |-> c]

\* a generic type hint: its __origin__ is named by the hint (List, Sequence,
\* Set, Tuple, Dict), its __args__ are annotations
Generic(origin, args) == [k |-> "gen", c |-> origin, args |-> args]

Ellipsis == Ann("ellipsis", "")

Param(n, a, d) == [name |-> n, ann |-> a, default |-> d]

\* inspect.signature(factory) raises ValueError for these builtin types
HasSignature(f) == f # "int"

\* the parameters of the factory's signature (self left out)
Params(f) ==
    CASE f = "HasDependency" -> <<Param("dep", Ann("cls", "Dependency"), FALSE)>>
      [] f = "A" -> <<Param("c", Ann("fwd", "C"), FALSE)>>
      [] f = "B" -> <<Param("a", Ann("cls", "A"), FALSE)>>
      [] f = "C" -> <<Param("b", Ann("cls", "B"), FALSE)>>
      [] f = "LB" -> <<Param("a", Ann("cls", "LA"), FALSE)>>
      [] f = "Base" -> <<Param("d", Ann("cls", "Derived"), FALSE)>>
      [] f = "MyClass" -> <<Param("a", Ann("none", ""), TRUE)>>
      [] f = "factory" -> <<Param("a", Ann("cls", "Dependency"), FALSE)>>
      [] f = "function" ->
             <<Param("a", Ann("cls", "Dependency"), FALSE),
               Param("b", Ann("cls", "MyClass"), FALSE),
               Param("c", Ann("cls", "Dependency"), TRUE),
               Param("args", Ann("cls", "Dependency"), FALSE),
               Param("d", Ann("cls", "Dependency"), FALSE),
               Param("kw", Ann("cls", "Dependency"), FALSE)>>
      [] f = "UnresolvableClass" ->
             <<Param("a", Ann("cls", "Dependency"), FALSE), Param("b", Ann("none", ""), FALSE)>>
      [] f = "Blocked" ->
             <<Param("a", Ann("cls", "int"), FALSE), Param("b", Ann("none", ""), FALSE)>>
      [] f = "Wrapped" ->
             <<Param("args", Ann("none", ""), FALSE), Param("kwargs", Ann("none", ""), FALSE)>>
      [] f = "WantsOptional" ->
             <<Param("d", Generic("Optional", <<Ann("cls", "Dependency")>>), FALSE)>>
      [] f = "WantsList" ->
             <<Param("xs", Generic("List", <<Ann("cls", "Dependency")>>), FALSE)>>
      [] f = "WantsSeq" ->
             <<Param("xs", Generic("Sequence", <<Ann("cls", "Dependency")>>), FALSE)>>
      [] f = "WantsSet" ->
             <<Param("xs", Generic("Set", <<Ann("cls", "Dependency")>>), FALSE)>>
      [] f = "WantsTuple" ->
             <<Param("xs", Generic("Tuple", <<Ann("cls", "Dependency"), Ellipsis>>), FALSE)>>
      [] f = "WantsDict" ->
             <<Param("xs", Generic("Dict", <<Ann("cls", "Dependency"),
                                             Ann("cls", "Dependency")>>), FALSE)>>
      [] f = "WantsPair" ->
             <<Param("xs", Generic("Tuple", <<Ann("cls", "Dependency"),
                                              Ann("cls", "Dependency")>>), FALSE)>>
      [] f = "WantsNested" ->
             <<Param("xs", Generic("List",
                                   <<Generic("List", <<Ann("cls", "Dependency")>>)>>), FALSE)>>
      [] OTHER -> <<>>

\* the parameters of the signature that are variadic (VAR_POSITIONAL and
\* VAR_KEYWORD)
VarPositional(f) ==
    CASE f = "function" -> {"args"}
      [] f = "Wrapped" -> {"args"}
      [] OTHER -> {}

VarKeyword(f) ==
    CASE f = "function" -> {"kw"}
      [] f = "Wrapped" -> {"kwargs"}
      [] OTHER -> {}

\* the annotated names of get_type_hints that are no parameters of the
\* signature: the return annotation, and the parameters of __init__ when
\* __new__ hides them behind variadic parameters
ExtraHints(f) ==
    CASE f = "function" -> <<Param("return", Ann("cls", "Dependency"), FALSE)>>
      [] f = "Wrapped" -> <<Param("a", Ann("cls", "Dependency"), FALSE),
                            Param("return", Ann("cls", "NoneType"), FALSE)>>
      [] OTHER -> <<>>

\* the gimme.later descriptors in the class namespace: name, dependency, lazy
Attributes(f) ==
    CASE f = "LA" -> <<[name |-> "b", dep |-> StrKey("LB"), lazy |-> TRUE]>>
      [] f = "Eager" -> <<[name |-> "dep", dep |-> ClsKey("Dependency"), lazy |-> FALSE]>>
      [] f = "Eager2" -> <<[name |-> "l", dep |-> ClsKey("Dependency"), lazy |-> TRUE],
                          [name |-> "n", dep |-> ClsKey("int"), lazy |-> FALSE],
                          [name |-> "dep", dep |-> ClsKey("Dependency"), lazy |-> FALSE]>>
      [] OTHER -> <<>>

\* what a call factory(**args) builds: the class and the attributes it sets
Produces(f) ==
    CASE f = "mk42" -> "MyClass"
      [] f = "factory" -> "dict"
      [] OTHER -> f

DefaultFields(f) ==
    CASE f = "mk42" -> ("a" :> -42)
      [] f = "MyClass" -> ("a" :> 0)
      [] OTHER -> EmptyMap

Obj(c, fields, by) == [cls |-> c, fields |-> fields, by |-> by]

\* objects the caller builds itself and hands to add() or passes as kwargs
Externals ==
    << Obj("int", EmptyMap, "ext"),
       Obj("int", EmptyMap, "ext"),
       Obj("MyClass", ("a" :> -42), "ext"),
       Obj("Derived", EmptyMap, "ext"),
       Obj("Dependency", EmptyMap, "ext"),
       Obj("object", EmptyMap, "ext"),
       Obj("LA", EmptyMap, "ext") >>

NExt == Len(Externals)

(***************************************************************************)
(* Outcomes of a call: a value, a list (many=True) or a raised exception.  *)
(***************************************************************************)
Ok(v) == [kind |-> "ok", val |-> v, vals |-> <<>>, msg |-> ""]

OkMany(vs) == [kind |-> "ok", val |-> 0, vals |-> vs, msg |-> ""]

Raise(kind, msg) == [kind |-> kind, val |-> 0, vals |-> <<>>, msg |-> msg]

Res(w, out) == [w |-> w, out |-> out]

IsOk(r) == r.out.kind = "ok"

Event(e, n, obj, lid) == [e |-> e, n |-> n, obj |-> obj, lid |-> lid]

Logged(w, ev) == [w EXCEPT !.log = Append(@, ev)]

(***************************************************************************)
(* helpers._Stack and helpers._LookupStack                                 *)
(***************************************************************************)
\* mutant: the key is put in front of the stack
StackPushFront(stack, key) == <<key>> \o stack

StackPush(s, item) == Append(s, item)

StackExit(s) == Front(s)

RECURSIVE JoinNames(_)
JoinNames(s) ==
    IF s = <<>> THEN ""
    ELSE IF Len(s) = 1 THEN NameOf(s[1])
    ELSE NameOf(s[1]) \o " -> " \o JoinNames(Tail(s))

\* mutant: the names are joined from the innermost request outwards
LookupStackStrInnermostFirst(s) == JoinNames(Reverse(s))

\* _LookupStack.__str__
LookupStackStr(s) == JoinNames(s)

(***************************************************************************)
(* SimpleRepository: construction, register, add, add_resolver             *)
(***************************************************************************)
NewLayer(id, resolvers) ==
    [id |-> id,
     resolvers |-> resolvers,
     types_by_str |-> EmptyMap,
     types |-> EmptyMap,
     instances |-> EmptyMap,
     lookup_stack |-> <<>>]

DependencyInfo(cls, factory, store, kwargs) ==
    [cls |-> cls, factory |-> factory, store |-> store, kwargs |-> kwargs]

\* mutant: only the class itself is entered, none of its ancestors
RegisterOwnClassOnly(L, info, mro, j) ==
    IF mro[1] \in DOMAIN L.types THEN L
    ELSE [L EXCEPT !.types_by_str = (ClassName(mro[1]) :> mro[1]) @@ L.types_by_str,
                   !.types = (mro[1] :> info) @@ L.types]

\* mutant: every class of the ancestor chain gets the new registration
RegisterBasesOverwriting(L, info, mro, j) ==
    [L EXCEPT !.types_by_str = [n \in {ClassName(mro[q]) : q \in 1..Len(mro)} |-> n] @@ @,
              !.types = [c \in {mro[q] : q \in 1..Len(mro)} |-> info] @@ @]

RECURSIVE RegisterBases(_, _, _, _)
RegisterBases(L, info, mro, j) ==
    IF j > Len(mro) THEN L
    ELSE LET base == mro[j]
             L1 == IF base \notin DOMAIN L.types
                   THEN [L EXCEPT
                           !.types_by_str =
                               (ClassName(base) :> base) @@ L.types_by_str,
                           !.types = (base :> info) @@ L.types]
                   ELSE L
         IN RegisterBases(L1, info, mro, j + 1)

\* mutant: the arguments are not checked against each other, info wins
RegisterUnchecked(w, i, cls, factory, info, store, kwargs) ==
    IF ~info.given /\ cls.k # "cls"
    THEN Res(w, Raise("TypeError", "Can only register classes"))
    ELSE LET inf == IF info.given THEN info.info
                    ELSE DependencyInfo(cls.n,
                                        IF factory.k = "none" THEN cls.n ELSE factory.n,
                                        store, kwargs)
         IN Res([w EXCEPT !.layers[i] = RegisterBases(w.layers[i], inf, Mro(inf.cls), 1)],
                Ok(0))

\* cls and factory are argument values ([k, n], k = "none" for an omitted one),
\* info is [given, info]
Register(w, i, cls, factory, info, store, kwargs) ==
    IF (cls.k # "none") = info.given
    THEN Res(w, Raise("ValueError", "Supply either cls or info"))
    ELSE IF ~info.given /\ cls.k # "cls"
    THEN Res(w, Raise("TypeError", "Can only register classes"))
    ELSE LET inf == IF info.given THEN info.info
                    ELSE DependencyInfo(cls.n,
                                        IF factory.k = "none" THEN cls.n ELSE factory.n,
                                        store, kwargs)
             L == RegisterBases(w.layers[i], inf, Mro(inf.cls), 1)
         IN Res([w EXCEPT !.layers[i] = L], Ok(0))

NoInfo == [given |-> FALSE, info |-> DependencyInfo("", "", TRUE, NoKw)]

RegisterCls(w, i, c) == Register(w, i, ClsKey(c), NoneArg, NoInfo, TRUE, NoKw).w

AppendInstanceTo(L, key, inst) ==
    [L EXCEPT !.instances =
        IF key \in DOMAIN L.instances
        THEN [L.instances EXCEPT ![key] = Append(@, inst)]
        ELSE (key :> <<inst>>) @@ L.instances]

RECURSIVE AppendToBases(_, _, _, _)
AppendToBases(L, mro, j, inst) ==
    IF j > Len(mro) THEN L
    ELSE AppendToBases(AppendInstanceTo(L, mro[j], inst), mro, j + 1, inst)

\* mutant: add never walks the base classes
AddExactClassOnly(w, i, inst, deep) ==
    LET cls == w.heap[inst].cls
        w1 == RegisterCls(w, i, cls)
    IN [w1 EXCEPT !.layers[i] = AppendInstanceTo(w1.layers[i], cls, inst)]

\* mutant: the class of the instance is not registered
AddUnregistered(w, i, inst, deep) ==
    LET cls == w.heap[inst].cls
        L1 == AppendInstanceTo(w.layers[i], cls, inst)
        L2 == IF deep THEN AppendToBases(L1, Mro(cls), 2, inst) ELSE L1
    IN [w EXCEPT !.layers[i] = L2]

\* SimpleRepository.add
Add(w, i, inst, deep) ==
    LET cls == w.heap[inst].cls
        w1 == RegisterCls(w, i, cls)
        L1 == AppendInstanceTo(w1.layers[i], cls, inst)
        L2 == IF deep THEN AppendToBases(L1, Mro(cls), 2, inst) ELSE L1
    IN [w1 EXCEPT !.layers[i] = L2]

AddResolver(L, resolver) == [L EXCEPT !.resolvers = <<resolver>> \o @]

(***************************************************************************)
(* The repository argument of a nested call: Layered is the                *)
(* LayeredRepository, i >= 1 is the i-th layer used on its own, NoRepo is  *)
(* repo=None.                                                              *)
(***************************************************************************)
Layered == 0

NoRepo == -1

Top(w) == Len(w.layers)

\* repository.types_by_str: LayeredRepository.__getattr__ hands it to the
\* current (topmost) layer
RepoTypesByStr(w, repo) ==
    IF repo = Layered THEN w.layers[Top(w)].types_by_str
    ELSE w.layers[repo].types_by_str

\* Resolver.create's call factory(**deps): builds the object, or raises
\* TypeError when the arguments do not fit the signature
CallFactory(w, f, args) ==
    LET variadic == VarPositional(f) \cup VarKeyword(f)
        names == {Params(f)[j].name : j \in 1..Len(Params(f))} \ variadic
        needed == {Params(f)[j].name :
                      j \in {q \in 1..Len(Params(f)) : ~Params(f)[q].default}} \ variadic
    IN IF \/ (VarKeyword(f) = {} /\ ~(DOMAIN args \subseteq names))
          \/ ~(needed \subseteq DOMAIN args)
       THEN Res(w, Raise("TypeError", f))
       ELSE Res([w EXCEPT !.heap = Append(@, Obj(Produces(f), args @@ DefaultFields(f), f)),
                          !.log = Append(@, Event("made", f, Len(w.heap) + 1, 0))],
                Ok(Len(w.heap) + 1))

\* TypeHintingResolver.get_type_hints: every annotation is evaluated, a
\* forward reference against repository.types_by_str; one that cannot be
\* evaluated makes the whole call raise NameError
HintsResolve(tbs, f) ==
    \A j \in 1..Len(Params(f)) :
        Params(f)[j].ann.k = "fwd" => Params(f)[j].ann.c \in DOMAIN tbs

HintOf(tbs, p) == IF p.ann.k = "fwd" THEN tbs[p.ann.c] ELSE p.ann.c

\* helpers.is_generic_type_hint
IsGenericTypeHint(hint) == hint.k = "gen"

\* hint.__origin__: the class behind the generic hint
Origin(hint) ==
    CASE hint.c = "List" -> "list"
      [] hint.c = "Set" -> "set"
      [] hint.c = "Tuple" -> "tuple"
      [] hint.c = "Dict" -> "dict"
      [] hint.c = "Optional" -> "Union"
      [] OTHER -> hint.c

\* issubclass(origin, ...) raises TypeError when its first argument is not a
\* class: typing.Union, the origin of Optional[X] and Union[X, Y], is none
IsClass(o) == o # "Union"

\* issubclass(origin, collections.abc.Iterable) / collections.abc.Mapping / tuple
IsIterableClass(o) == o \in {"list", "set", "tuple", "dict", "Sequence", "Iterable"}

IsMappingClass(o) == o = "dict"

IsTupleClass(o) == o = "tuple"

\* collection_type in vars(collections.abc).values()
IsAbstractCollection(o) == o \in {"Sequence", "Iterable"}

\* the result of parse_type_hint: None, or the collection and the inner type
NoTypeHintInfo == [some |-> FALSE, collection |-> "", inner_type |-> ""]

TypeHintInfo(collection, inner_type) ==
    [some |-> TRUE, collection |-> collection, inner_type |-> inner_type]

\* mutant: every collection is handed over as a list
ParseTypeHintAlwaysList(hint) ==
    IF ~IsGenericTypeHint(hint) \/ ~IsIterableClass(Origin(hint))
           \/ IsMappingClass(Origin(hint))
    THEN NoTypeHintInfo
    ELSE IF IsTupleClass(Origin(hint))
            /\ (Len(hint.args) # 2 \/ hint.args[2] # Ellipsis)
    THEN NoTypeHintInfo
    ELSE IF hint.args[1].k # "cls"
    THEN NoTypeHintInfo
    ELSE TypeHintInfo("list", hint.args[1].c)

\* helpers.parse_type_hint
ParseTypeHint(hint) ==
    IF ~IsGenericTypeHint(hint) \/ ~IsIterableClass(Origin(hint))
           \/ IsMappingClass(Origin(hint))
    THEN NoTypeHintInfo
    ELSE IF IsTupleClass(Origin(hint))
            /\ (Len(hint.args) # 2 \/ hint.args[2] # Ellipsis)
    THEN NoTypeHintInfo
    ELSE IF hint.args[1].k # "cls"
    THEN NoTypeHintInfo
    ELSE TypeHintInfo(IF IsAbstractCollection(Origin(hint)) THEN "list"
                      ELSE Origin(hint),
                      hint.args[1].c)

\* result.collection(values): the list, tuple or set made of the values
Collection(collection, vals) ==
    Obj(collection,
        "items" :> (IF collection = "set" THEN {vals[q] : q \in 1..Len(vals)} ELSE vals),
        "collection")

\* mutant: the parameters with a default are required as well
RequiredWithDefaults(w, f, kw) ==
    LET ps == Params(f) \o ExtraHints(f)
        req == SelectSeq(ps, LAMBDA p : /\ p.name \notin VarPositional(f) \cup VarKeyword(f)
                                        /\ p.name \notin DOMAIN kw
                                        /\ p.name # "return")
    IN IF w.rev THEN Reverse(req) ELSE req

\* all_required, in the order the set happens to be iterated
Required(w, f, kw) ==
    LET ps == Params(f) \o ExtraHints(f)
        req == SelectSeq(ps, LAMBDA p : /\ p.name \notin VarPositional(f) \cup VarKeyword(f)
                                        /\ ~p.default
                                        /\ p.name \notin DOMAIN kw
                                        /\ p.name # "return")
    IN IF w.rev THEN Reverse(req) ELSE req

\* the call plugin.create(factory, repo, kwargs) of the j-th resolver of the
\* layer L, and its return or the exception it raised, as events of the log
Trying(w, L, j) == Logged(w, Event("create", L.resolvers[j], j, L.id))

Tried(r, L, j) ==
    Logged(r.w, IF IsOk(r) THEN Event("returned", L.resolvers[j], j, L.id)
                ELSE Event("raised", r.out.kind, j, L.id))

\* the entry into the with-block of SimpleRepository.resolve in the layer L
\* and the way out of it, with the result or the exception that leaves it, as
\* events of the log
Entered(w, L, key) == Logged(w, Event("enter", NameOf(key), 0, L.id))

Left(w, L, key, out) ==
    Logged(w, [e |-> "exit", n |-> NameOf(key), obj |-> 0, lid |-> L.id, out |-> out])

\* the value of a one-element set: Only({e(r) : r \in {x}}) is e(x), with x
\* evaluated once
Only(S) == CHOOSE y \in S : TRUE

Deps(w, out, deps) == [w |-> w, out |-> out, deps |-> deps]

RECURSIVE LayeredGetLoop(_, _, _, _, _)
RECURSIVE LayeredGetMany(_, _, _, _)
RECURSIVE SimpleGet(_, _, _, _, _, _)
RECURSIVE Create(_, _, _, _, _)
RECURSIVE Resolve(_, _, _, _, _, _)
RECURSIVE ResolveLoop(_, _, _, _, _, _)
RECURSIVE ResolverCreate(_, _, _, _, _)
RECURSIVE TypeHintingDeps(_, _, _, _, _)
RECURSIVE AttributeDeps(_, _, _, _)
RECURSIVE RepoGet(_, _, _, _)

\* mutant: the layers are tried from the base layer up
RECURSIVE LayeredGetLoopUp(_, _, _, _, _)
LayeredGetLoopUp(w, key, kwargs, i, err) ==
    IF i > Len(w.layers) THEN Res(w, IF err.kind = "none" THEN Ok(0) ELSE err)
    ELSE Only({IF r.out.kind = "CannotResolve"
               THEN LayeredGetLoopUp(r.w, key, kwargs, i + 1, r.out)
               ELSE r :
               r \in {SimpleGet(w, i, key, FALSE, Layered, kwargs)}})

LayeredGetBaseFirst(w, key, many, kwargs) ==
    IF many THEN LayeredGetMany(w, key, 1, <<>>)
    ELSE LayeredGetLoopUp(w, key, kwargs, 1, Raise("none", ""))

\* mutant: the lists of the layers are joined from the topmost layer down
RECURSIVE LayeredGetManyTopFirst(_, _, _, _)
LayeredGetManyTopFirst(w, key, i, acc) ==
    IF i > Len(w.layers) THEN Res(w, OkMany(acc))
    ELSE Only({IF IsOk(r) THEN LayeredGetManyTopFirst(r.w, key, i + 1, r.out.vals \o acc)
               ELSE r :
               r \in {SimpleGet(w, i, key, TRUE, NoRepo, NoKw)}})

\* mutant: only the topmost layer is asked
LayeredGetTopOnly(w, key, kwargs, i, err) ==
    SimpleGet(w, i, key, FALSE, Layered, kwargs)

\* LayeredRepository.get
LayeredGet(w, key, many, kwargs) ==
    IF many THEN LayeredGetMany(w, key, 1, <<>>)
    ELSE LayeredGetLoop(w, key, kwargs, Top(w), Raise("none", ""))

LayeredGetMany(w, key, i, acc) ==
    IF i > Len(w.layers) THEN Res(w, OkMany(acc))
    ELSE Only({IF IsOk(r) THEN LayeredGetMany(r.w, key, i + 1, acc \o r.out.vals)
               ELSE r :
               r \in {SimpleGet(w, i, key, TRUE, NoRepo, NoKw)}})

LayeredGetLoop(w, key, kwargs, i, err) ==
    IF i < 1 THEN Res(w, IF err.kind = "none" THEN Ok(0) ELSE err)
    ELSE Only({IF r.out.kind = "CannotResolve"
               THEN LayeredGetLoop(r.w, key, kwargs, i - 1, r.out)
               ELSE r :
               r \in {SimpleGet(w, i, key, FALSE, Layered, kwargs)}})

\* the get of the repository a resolver was handed
RepoGet(w, repo, key, many) ==
    IF repo = NoRepo
    THEN Res(Logged(w, Event("lookup", key.n, 0, 0)), Raise("AttributeError", "NoneType"))
    ELSE IF repo = Layered
    THEN LayeredGet(Logged(w, Event("lookup", key.n, 0, 0)), key, many, NoKw)
    ELSE SimpleGet(Logged(w, Event("lookup", key.n, 0, 0)), repo, key, many, NoRepo, NoKw)

\* SimpleRepository.get
\* the end of SimpleRepository.create: if do_store: self.add(inst)
CreateStore(r, i, key, do_store) ==
    IF IsOk(r) /\ do_store
    THEN Res(Logged(Add(r.w, i, r.out.val, TRUE),
                    Event("stored", key.n, r.out.val, r.w.layers[i].id)),
             r.out)
    ELSE r

\* mutant: the result of a callable is stored like a created instance
SimpleGetStoresResult(w, i, key, many, repo, kwargs) ==
    LET L == w.layers[i]
        known == key.k # "str" \/ key.n \in DOMAIN L.types_by_str
        k == IF key.k = "str" /\ known THEN ClsKey(L.types_by_str[key.n]) ELSE key
        cached == k.k = "cls" /\ k.n \in DOMAIN L.instances
    IN IF ~known
       THEN Res(w, Raise("CannotResolve", "Could not resolve for key None"))
       ELSE IF many
       THEN Res(w, OkMany(IF cached THEN L.instances[k.n] ELSE <<>>))
       ELSE IF k.k = "fn"
       THEN Only({CreateStore(r, i, k, TRUE) : r \in {Resolve(w, i, k.n, k, repo, kwargs)}})
       ELSE IF kwargs.given \/ ~cached
       THEN Create(w, i, k, repo, kwargs)
       ELSE Res(w, Ok(Last(L.instances[k.n])))

\* mutant: the oldest cached instance is returned
SimpleGetOldest(w, i, key, many, repo, kwargs) ==
    LET L == w.layers[i]
        known == key.k # "str" \/ key.n \in DOMAIN L.types_by_str
        k == IF key.k = "str" /\ known THEN ClsKey(L.types_by_str[key.n]) ELSE key
        cached == k.k = "cls" /\ k.n \in DOMAIN L.instances
    IN IF ~known
       THEN Res(w, Raise("CannotResolve", "Could not resolve for key None"))
       ELSE IF many
       THEN Res(w, OkMany(IF cached THEN L.instances[k.n] ELSE <<>>))
       ELSE IF k.k = "fn"
       THEN Resolve(w, i, k.n, k, repo, kwargs)
       ELSE IF kwargs.given \/ ~cached
       THEN Create(w, i, k, repo, kwargs)
       ELSE Res(w, Ok(L.instances[k.n][1]))

SimpleGet(w, i, key, many, repo, kwargs) ==
    LET L == w.layers[i]
        known == key.k # "str" \/ key.n \in DOMAIN L.types_by_str
        k == IF key.k = "str" /\ known THEN ClsKey(L.types_by_str[key.n]) ELSE key
        cached == k.k = "cls" /\ k.n \in DOMAIN L.instances
    IN IF ~known
       THEN Res(w, Raise("CannotResolve", "Could not resolve for key None"))
       ELSE IF many
       THEN Res(w, OkMany(IF cached THEN L.instances[k.n] ELSE <<>>))
       ELSE IF k.k = "fn"
       THEN Resolve(w, i, k.n, k, repo, kwargs)
       ELSE IF kwargs.given \/ ~cached
       THEN Create(w, i, k, repo, kwargs)
       ELSE Res(w, Ok(Last(L.instances[k.n])))

\* SimpleRepository._ensure_info
EnsureInfo(w, i, cls) ==
    IF cls \in DOMAIN w.layers[i].types THEN w ELSE RegisterCls(w, i, cls)

\* mutant: create stores the instance also when the caller gave kwargs
CreateAlwaysStores(w, i, key, repo, kwargs) ==
    IF key.k # "cls"
    THEN Res(w, Raise("TypeError", "Can only create classes"))
    ELSE IF InSeq(key, w.layers[i].lookup_stack)
    THEN Res(Logged(w, Event("cycle", NameOf(key), 0, w.layers[i].id)),
             Raise("CircularDependency", LookupStackStr(w.layers[i].lookup_stack)))
    ELSE Only({
           Only({CreateStore(r, i, key, w1.layers[i].types[key.n].store) :
                 r \in {Resolve(w1, i, w1.layers[i].types[key.n].factory, key,
                                IF repo = NoRepo THEN i ELSE repo,
                                IF kwargs.given
                                THEN Kw(kwargs.map @@ w1.layers[i].types[key.n].kwargs.map)
                                ELSE NoKw)}}) :
           w1 \in {EnsureInfo(w, i, key.n)}})

\* mutant: create never stores the instance
CreateNeverStores(w, i, key, repo, kwargs) ==
    IF key.k # "cls"
    THEN Res(w, Raise("TypeError", "Can only create classes"))
    ELSE IF InSeq(key, w.layers[i].lookup_stack)
    THEN Res(Logged(w, Event("cycle", NameOf(key), 0, w.layers[i].id)),
             Raise("CircularDependency", LookupStackStr(w.layers[i].lookup_stack)))
    ELSE Only({
           Resolve(w1, i, w1.layers[i].types[key.n].factory, key,
                   IF repo = NoRepo THEN i ELSE repo,
                   IF kwargs.given
                   THEN Kw(kwargs.map @@ w1.layers[i].types[key.n].kwargs.map)
                   ELSE NoKw) :
           w1 \in {EnsureInfo(w, i, key.n)}})

\* SimpleRepository.create
Create(w, i, key, repo, kwargs) ==
    IF key.k # "cls"
    THEN Res(w, Raise("TypeError", "Can only create classes"))
    ELSE IF InSeq(key, w.layers[i].lookup_stack)
    THEN Res(Logged(w, Event("cycle", NameOf(key), 0, w.layers[i].id)),
             Raise("CircularDependency", LookupStackStr(w.layers[i].lookup_stack)))
    ELSE Only({
           Only({CreateStore(r, i, key,
                             ~kwargs.given /\ w1.layers[i].types[key.n].store) :
                 r \in {Resolve(w1, i, w1.layers[i].types[key.n].factory, key,
                                IF repo = NoRepo THEN i ELSE repo,
                                IF kwargs.given
                                THEN Kw(kwargs.map @@ w1.layers[i].types[key.n].kwargs.map)
                                ELSE NoKw)}}) :
           w1 \in {EnsureInfo(w, i, key.n)}})

\* SimpleRepository.resolve: the lookup stack holds key while the resolvers
\* run and is popped on every way out
\* mutant: the key is taken off the lookup stack only when a resolver returned
ResolveUnwindsOnReturn(w, i, factory, key, repo, kwargs) ==
    Only({Res(Left(IF IsOk(r)
                   THEN [r.w EXCEPT !.layers[i].lookup_stack = StackExit(@)]
                   ELSE r.w,
                   w.layers[i], key, r.out), r.out) :
          r \in {ResolveLoop(Entered([w EXCEPT !.layers[i].lookup_stack = StackPush(@, key)],
                                     w.layers[i], key),
                             i, 1, factory, repo, kwargs)}})

Resolve(w, i, factory, key, repo, kwargs) ==
    Only({Res(Left([r.w EXCEPT !.layers[i].lookup_stack = StackExit(@)],
                   w.layers[i], key, r.out), r.out) :
          r \in {ResolveLoop(Entered([w EXCEPT !.layers[i].lookup_stack = StackPush(@, key)],
                                     w.layers[i], key),
                             i, 1, factory, repo, kwargs)}})

\* mutant: the resolvers after the first one that returns are invoked as well,
\* and the last result wins
RECURSIVE ResolveLoopGoesOn(_, _, _, _, _, _)
ResolveLoopGoesOn(w, i, j, factory, repo, kwargs) ==
    IF j > Len(w.layers[i].resolvers)
    THEN Res(w, Raise("CannotResolve", LookupStackStr(w.layers[i].lookup_stack)))
    ELSE Only({IF IsOk(r) /\ j = Len(w.layers[i].resolvers)
               THEN Res(Tried(r, w.layers[i], j), r.out)
               ELSE IF IsOk(r) \/ r.out.kind \in {"CannotResolve", "PartiallyResolved"}
               THEN ResolveLoopGoesOn(Tried(r, w.layers[i], j), i, j + 1, factory,
                                      repo, kwargs)
               ELSE Res(Tried(r, w.layers[i], j), r.out) :
               r \in {ResolverCreate(Trying(w, w.layers[i], j),
                                     w.layers[i].resolvers[j], factory, repo, kwargs)}})

\* mutant: only CannotResolve makes the loop go on to the next resolver
RECURSIVE ResolveLoopCatchesCannotResolve(_, _, _, _, _, _)
ResolveLoopCatchesCannotResolve(w, i, j, factory, repo, kwargs) ==
    IF j > Len(w.layers[i].resolvers)
    THEN Res(w, Raise("CannotResolve", LookupStackStr(w.layers[i].lookup_stack)))
    ELSE Only({IF r.out.kind = "CannotResolve"
               THEN ResolveLoopCatchesCannotResolve(Tried(r, w.layers[i], j), i, j + 1,
                                                    factory, repo, kwargs)
               ELSE Res(Tried(r, w.layers[i], j), r.out) :
               r \in {ResolverCreate(Trying(w, w.layers[i], j),
                                     w.layers[i].resolvers[j], factory, repo, kwargs)}})

\* mutant: a CircularDependency makes the loop go on to the next resolver
RECURSIVE ResolveLoopCatchesCircular(_, _, _, _, _, _)
ResolveLoopCatchesCircular(w, i, j, factory, repo, kwargs) ==
    IF j > Len(w.layers[i].resolvers)
    THEN Res(w, Raise("CannotResolve", LookupStackStr(w.layers[i].lookup_stack)))
    ELSE Only({IF r.out.kind \in {"CannotResolve", "PartiallyResolved", "CircularDependency"}
               THEN ResolveLoopCatchesCircular(Tried(r, w.layers[i], j), i, j + 1, factory,
                                               repo, kwargs)
               ELSE Res(Tried(r, w.layers[i], j), r.out) :
               r \in {ResolverCreate(Trying(w, w.layers[i], j),
                                     w.layers[i].resolvers[j], factory, repo, kwargs)}})

\* the loop of SimpleRepository.resolve over self.resolvers
ResolveLoop(w, i, j, factory, repo, kwargs) ==
    IF j > Len(w.layers[i].resolvers)
    THEN Res(w, Raise("CannotResolve", LookupStackStr(w.layers[i].lookup_stack)))
    ELSE Only({IF r.out.kind \in {"CannotResolve", "PartiallyResolved"}
               THEN ResolveLoop(Tried(r, w.layers[i], j), i, j + 1, factory, repo, kwargs)
               ELSE Res(Tried(r, w.layers[i], j), r.out) :
               r \in {ResolverCreate(Trying(w, w.layers[i], j),
                                     w.layers[i].resolvers[j], factory, repo, kwargs)}})

\* the get_dependencies of the resolver's class
GetDependencies(w, resolver, factory, repo, kw) ==
    CASE resolver = "TypeHintingResolver" ->
             IF ~HasSignature(factory)
             THEN Deps(w, Raise("CannotResolve", ""), EmptyMap)
             ELSE IF repo = NoRepo
             THEN Deps(w, Raise("AttributeError", "NoneType"), EmptyMap)
             ELSE IF ~HintsResolve(RepoTypesByStr(w, repo), factory)
             THEN Deps(w, Raise("CannotResolve", ""), EmptyMap)
             ELSE TypeHintingDeps(w, Required(w, factory, kw), 1, repo, EmptyMap)
      [] resolver = "AttributeResolver" ->
             AttributeDeps(w, Attributes(factory), 1, repo)
      [] resolver = "NoArgs" ->
             Deps(w, Ok(0), EmptyMap)
      [] OTHER ->
             Deps(w, Raise("CannotResolve", ""), EmptyMap)

\* Resolver.create
ResolverCreate(w, resolver, factory, repo, kwargs) ==
    Only({IF d.out.kind # "ok" THEN Res(d.w, d.out)
          ELSE CallFactory(d.w, factory, kwargs.map @@ d.deps) :
          d \in {GetDependencies(w, resolver, factory, repo, kwargs.map)}})

\* the loop of TypeHintingResolver.get_dependencies over all_required
TypeHintingDeps(w, req, j, repo, deps) ==
    IF j > Len(req) THEN Deps(w, Ok(0), deps)
    ELSE IF req[j].ann.k = "none"
    THEN Deps(w, Raise("CannotResolve", req[j].name), deps)
    ELSE IF IsGenericTypeHint(req[j].ann)
    THEN IF ~IsClass(Origin(req[j].ann))
         THEN Deps(w, Raise("TypeError", "issubclass() arg 1 must be a class"), deps)
         ELSE IF ~ParseTypeHint(req[j].ann).some
         THEN Deps(w, Raise("CannotResolve", req[j].name), deps)
         ELSE Only({IF IsOk(r)
                    THEN TypeHintingDeps(
                             [r.w EXCEPT !.heap =
                                 Append(@, Collection(ParseTypeHint(req[j].ann).collection,
                                                      r.out.vals))],
                             req, j + 1, repo,
                             (req[j].name :> (Len(r.w.heap) + 1)) @@ deps)
                    ELSE Deps(r.w, r.out, deps) :
                    r \in {RepoGet(w, repo,
                                   ClsKey(ParseTypeHint(req[j].ann).inner_type), TRUE)}})
    ELSE Only({IF IsOk(r)
               THEN TypeHintingDeps(r.w, req, j + 1, repo,
                                    (req[j].name :> r.out.val) @@ deps)
               ELSE Deps(r.w, r.out, deps) :
               r \in {RepoGet(w, repo,
                              ClsKey(HintOf(RepoTypesByStr(w, repo), req[j])), FALSE)}})

\* mutant: the descriptors marked lazy are looked up as well
RECURSIVE AttributeDepsLazyToo(_, _, _, _)
AttributeDepsLazyToo(w, attrs, j, repo) ==
    IF j > Len(attrs)
    THEN Deps(w, Raise("PartiallyResolved", ""), EmptyMap)
    ELSE Only({IF IsOk(r) THEN AttributeDepsLazyToo(r.w, attrs, j + 1, repo)
               ELSE Deps(r.w, r.out, EmptyMap) :
               r \in {RepoGet(w, repo, attrs[j].dep, FALSE)}})

\* AttributeResolver.get_dependencies
AttributeDeps(w, attrs, j, repo) ==
    IF j > Len(attrs)
    THEN Deps(w, Raise("PartiallyResolved", ""), EmptyMap)
    ELSE IF attrs[j].lazy THEN AttributeDeps(w, attrs, j + 1, repo)
    ELSE Only({IF IsOk(r) THEN AttributeDeps(r.w, attrs, j + 1, repo)
               ELSE Deps(r.w, r.out, EmptyMap) :
               r \in {RepoGet(w, repo, attrs[j].dep, FALSE)}})

(***************************************************************************)
(* The state: the layers of the LayeredRepository that current_repo()      *)
(* returns, the objects that exist, and three records of what the caller   *)
(* did: `last` (the last call, its arguments, outcome and event log),      *)
(* `hist` (the instances stored in the live layers, in the order of the    *)
(* calls that stored them) and `withs` (the layer pushed by every          *)
(* with-block that is still open, innermost last).                         *)
(***************************************************************************)
World(rev) == [layers |-> layers, heap |-> heap, log |-> <<>>, rev |-> rev]

Call(op, key, kwargs, many, arg, deep, out, log) ==
    [op |-> op, key |-> key, kwargs |-> kwargs, many |-> many, arg |-> arg,
     deep |-> deep, out |-> out, log |-> log]

NoKey == [k |-> "none", n |-> ""]

\* the identity of a new layer: the least one no live layer or open with-block has
UsedLayerIds ==
    {layers[j].id : j \in 1..Len(layers)} \cup {withs[j].id : j \in 1..Len(withs)}

\* the deepest stack of layers of the callers that start inside a scope
MaxScopes == MaxLayers + 1

FreshLayerId == CHOOSE n \in 1..(2 * MaxScopes) :
                    n \notin UsedLayerIds /\ \A m \in 1..(n - 1) : m \in UsedLayerIds

Stored(log) == SelectSeq(log, LAMBDA ev : ev.e = "stored")

RECURSIVE HistOf(_, _)
HistOf(evs, deep) ==
    IF evs = <<>> THEN <<>>
    ELSE <<[lid |-> evs[1].lid, obj |-> evs[1].obj, deep |-> deep]>>
             \o HistOf(Tail(evs), deep)

Fits(w, log) ==
    /\ Len(w.heap) <= NExt + MaxObjs
    /\ Len(hist) + Len(Stored(log)) <= MaxHist

\* main.py:156-157 and LayeredRepository.__init__: the default repository is one
\* base layer whose only resolver is a TypeHintingResolver
Init ==
    /\ layers = <<NewLayer(1, <<"TypeHintingResolver">>)>>
    /\ heap = Externals
    /\ last = Call("init", NoKey, NoKw, FALSE, 0, FALSE, Ok(0), <<>>)
    /\ hist = <<>>
    /\ withs = <<>>

\* gimme.that / LayeredRepository.get
Get(key, kwargs, many, rev) ==
    \E r \in {LayeredGet(World(rev), key, many, kwargs)} :
       /\ Fits(r.w, r.w.log)
       /\ layers' = r.w.layers
       /\ heap' = r.w.heap
       /\ last' = Call("get", key, kwargs, many, 0, FALSE, r.out, r.w.log)
       /\ hist' = hist \o HistOf(Stored(r.w.log), TRUE)
       /\ UNCHANGED withs

\* gimme.add: LayeredRepository.__getattr__ hands add to the current layer
AddObj(obj, deep) ==
    \E w \in {Add(World(FALSE), Len(layers), obj, deep)} :
       /\ Len(hist) < MaxHist
       /\ layers' = w.layers
       /\ last' = Call("add", NoKey, NoKw, FALSE, obj, deep, Ok(0), <<>>)
       /\ hist' = Append(hist, [lid |-> layers[Len(layers)].id, obj |-> obj,
                                deep |-> deep])
       /\ UNCHANGED <<heap, withs>>

\* gimme.register
RegisterCall(cls, factory, info, store, kwargs) ==
    \E r \in {Register(World(FALSE), Len(layers), cls, factory, info, store, kwargs)} :
       /\ layers' = r.w.layers
       /\ last' = Call("register", cls, kwargs, FALSE, 0, store, r.out, <<>>)
       /\ UNCHANGED <<heap, hist, withs>>

\* gimme.add_resolver
AddResolverCall(resolver) ==
    /\ layers' = [layers EXCEPT ![Len(layers)] = AddResolver(@, resolver)]
    /\ last' = Call("add_resolver", StrKey(resolver), NoKw, FALSE, 0, FALSE, Ok(0), <<>>)
    /\ UNCHANGED <<heap, hist, withs>>

\* mutant: the new layer starts with the chain the module starts with
PushedLayersFreshChain ==
    Append(layers, NewLayer(FreshLayerId, <<"TypeHintingResolver">>))

\* main.context followed by _Stack.push
PushedLayers ==
    Append(layers, NewLayer(FreshLayerId, layers[Len(layers)].resolvers))

\* gimme.context() called as a statement, by a caller that goes no deeper
\* than n layers
ContextWithin(n) ==
    /\ Len(layers) < n
    /\ layers' = PushedLayers
    /\ last' = Call("context", NoKey, NoKw, FALSE, FreshLayerId, FALSE, Ok(0), <<>>)
    /\ UNCHANGED <<heap, hist, withs>>

Context == ContextWithin(MaxLayers)

\* the identities of the layers, base first
LayerIds(ls) == [j \in 1..Len(ls) |-> ls[j].id]

\* with gimme.context(): ... is entered; the block remembers the layer it
\* pushed and the layers it found
EnterWithin(n) ==
    /\ Len(layers) < n
    /\ Len(withs) < n - 1
    /\ layers' = PushedLayers
    /\ withs' = Append(withs, [id |-> FreshLayerId, below |-> LayerIds(layers)])
    /\ last' = Call("enter", NoKey, NoKw, FALSE, FreshLayerId, FALSE, Ok(0), <<>>)
    /\ UNCHANGED <<heap, hist>>

EnterWith == EnterWithin(MaxLayers)

\* mutant: pop without the guard for the base layer
PopUnguarded(ls) == [layers |-> Front(ls), out |-> Ok(Last(ls).id)]

\* LayeredRepository.pop
Pop(ls) ==
    IF Len(ls) <= 1
    THEN [layers |-> ls, out |-> Raise("IndexError", "Cannot pop the base repository layer")]
    ELSE [layers |-> Front(ls), out |-> Ok(Last(ls).id)]

\* LayeredRepository.__exit__
Exit(ls) ==
    LET r == Pop(ls)
    IN IF r.out.kind = "IndexError" THEN [layers |-> ls, out |-> Ok(0)] ELSE r

LiveHist(ls) ==
    SelectSeq(hist, LAMBDA h : \E j \in 1..Len(ls) : ls[j].id = h.lid)

RECURSIVE DroppedOf(_)
DroppedOf(hs) ==
    IF hs = <<>> THEN <<>>
    ELSE <<Event("dropped", "", hs[1].obj, hs[1].lid)>> \o DroppedOf(Tail(hs))

\* the stored instances that go away with the layers that are not in ls
Dropped(ls) ==
    DroppedOf(SelectSeq(hist, LAMBDA h : \A j \in 1..Len(ls) : ls[j].id # h.lid))

\* gimme.pop_context
PopContext ==
    LET r == Pop(layers)
    IN /\ layers' = r.layers
       /\ last' = Call("pop", NoKey, NoKw, FALSE, 0, FALSE, r.out, Dropped(r.layers))
       /\ hist' = LiveHist(r.layers)
       /\ UNCHANGED <<heap, withs>>

\* the innermost open with-block is left
ExitWith ==
    LET r == Exit(layers)
    IN /\ withs # <<>>
       /\ layers' = r.layers
       /\ withs' = Front(withs)
       /\ last' = Call("exit", NoKey, NoKw, FALSE, Last(withs).id, FALSE, r.out,
                        Dropped(r.layers))
       /\ hist' = LiveHist(r.layers)
       /\ UNCHANGED heap

\* mutant: every read asks the repository
ReadAttributeAlwaysAsks(obj, j) ==
    LET attr == Attributes(heap[obj].cls)[j]
    IN \E r \in {RepoGet(World(FALSE), Layered, attr.dep, FALSE)} :
          /\ Fits(r.w, r.w.log)
          /\ layers' = r.w.layers
          /\ heap' = IF IsOk(r)
                     THEN [r.w.heap EXCEPT ![obj].fields = (attr.name :> r.out.val) @@ @]
                     ELSE r.w.heap
          /\ last' = Call("read", attr.dep, NoKw, FALSE, obj, FALSE, r.out, r.w.log)
          /\ hist' = hist \o HistOf(Stored(r.w.log), TRUE)
          /\ UNCHANGED withs

\* Attribute.__get__ on an instance: the first read asks the repository
ReadAttribute(obj, j) ==
    LET attr == Attributes(heap[obj].cls)[j]
    IN IF attr.name \in DOMAIN heap[obj].fields
       THEN /\ last' = Call("read", attr.dep, NoKw, FALSE, obj, FALSE,
                            Ok(heap[obj].fields[attr.name]), <<>>)
            /\ UNCHANGED <<layers, heap, hist, withs>>
       ELSE \E r \in {RepoGet(World(FALSE), Layered, attr.dep, FALSE)} :
               /\ Fits(r.w, r.w.log)
               /\ layers' = r.w.layers
               /\ heap' = IF IsOk(r)
                          THEN [r.w.heap EXCEPT ![obj].fields =
                                   (attr.name :> r.out.val) @@ @]
                          ELSE r.w.heap
               /\ last' = Call("read", attr.dep, NoKw, FALSE, obj, FALSE, r.out, r.w.log)
               /\ hist' = hist \o HistOf(Stored(r.w.log), TRUE)
               /\ UNCHANGED withs

(***************************************************************************)
(* Scopes: a caller that adds two ints, asks for int and opens and closes  *)
(* scopes, with gimme.context()/gimme.pop_context() and with with-blocks.  *)
(* An int cannot be built by the container (int has no signature).         *)
(***************************************************************************)
ScopeObjs == {1, 2}

GetScoped == \E many \in BOOLEAN : Get(ClsKey("int"), NoKw, many, FALSE)

AddScoped == \E obj \in ScopeObjs : AddObj(obj, TRUE)

Next ==
    \/ GetScoped
    \/ AddScoped
    \/ Context
    \/ EnterWith
    \/ PopContext
    \/ ExitWith

Spec == Init /\ [][Next]_vars

(***************************************************************************)
(* Fallback: a caller that adds a MyClass object built by itself,          *)
(* registers MyClass with the factory function lambda: MyClass(a=42),      *)
(* asks for MyClass and opens and closes scopes.                           *)
(***************************************************************************)
GetMyClass == Get(ClsKey("MyClass"), NoKw, FALSE, FALSE)

AddMyClass == AddObj(3, TRUE)

RegisterFactory == RegisterCall(ClsKey("MyClass"), FnKey("mk42"), NoInfo, TRUE, NoKw)

NextFallback ==
    \/ GetMyClass
    \/ AddMyClass
    \/ RegisterFactory
    \/ Context
    \/ PopContext

SpecFallback == Init /\ [][NextFallback]_vars

(***************************************************************************)
(* What the claims speak about.                                            *)
(***************************************************************************)
\* the outcome a get(key) without kwargs would have in the state (ls, hp)
OutcomeOfGet(ls, hp, key) ==
    LayeredGet([layers |-> ls, heap |-> hp, log |-> <<>>, rev |-> FALSE],
               key, FALSE, NoKw).out

\* whether the history entry h put its object into the instance cache of class c
CachedUnder(hp, h, c) ==
    hp[h.obj].cls = c \/ (h.deep /\ InSeq(c, Mro(hp[h.obj].cls)))

\* the objects stored for class c in the layer with identity lid, oldest first
RECURSIVE StoredFor(_, _, _, _)
StoredFor(hs, hp, lid, c) ==
    IF hs = <<>> THEN <<>>
    ELSE (IF hs[1].lid = lid /\ CachedUnder(hp, hs[1], c) THEN <<hs[1].obj>> ELSE <<>>)
             \o StoredFor(Tail(hs), hp, lid, c)

TopId(ls) == ls[Len(ls)].id

(***************************************************************************)
(* C3.  Scope shadowing and restore: an add(y) of an int inside a scope    *)
(* makes get(int) return y; a pop of the scope, by pop_context() or by     *)
(* leaving the with-block, removes exactly the topmost layer, and get(int) *)
(* then returns again the int x that was added last to the enclosing       *)
(* layer.                                                                  *)
(***************************************************************************)
C3_Shadows ==
    (last'.op = "add" /\ Len(layers') >= 2 /\ heap'[last'.arg].cls = "int")
        => OutcomeOfGet(layers', heap', ClsKey("int")) = Ok(last'.arg)

C3_Restores ==
    (last'.op \in {"pop", "exit"} /\ Len(layers') < Len(layers))
        => /\ layers' = Front(layers)
           /\ LET xs == StoredFor(hist', heap', TopId(layers'), "int")
              IN xs # <<>> => OutcomeOfGet(layers', heap', ClsKey("int")) = Ok(Last(xs))

C3_ShadowAndRestore == [][C3_Shadows /\ C3_Restores]_vars

\* a with-block in which an int was added has just been left, and the enclosing
\* layer holds an int that get(int) returns
C3_Witness ==
    /\ last.op = "exit"
    /\ \E j \in 1..Len(last.log) : heap[last.log[j].obj].cls = "int"
    /\ StoredFor(hist, heap, TopId(layers), "int") # <<>>
    /\ OutcomeOfGet(layers, heap, ClsKey("int"))
           = Ok(Last(StoredFor(hist, heap, TopId(layers), "int")))

(***************************************************************************)
(* C8.  The base layer is permanent: there is always at least one layer,   *)
(* the first layer is the one the repository was created with, and a pop   *)
(* with one layer left raises IndexError and removes nothing.              *)
(***************************************************************************)
C8_BasePermanent ==
    /\ [](Len(layers) >= 1 /\ layers[1].id = 1)
    /\ [][(last'.op = "pop" /\ Len(layers) = 1)
            => (last'.out.kind = "IndexError" /\ layers' = layers)]_vars

C8_Witness ==
    /\ last.op = "pop"
    /\ last.out.kind = "IndexError"
    /\ Len(layers) = 1
    /\ layers[1].id = 1

(***************************************************************************)
(* C4.  Fallback to an outer instance: when the topmost layer holds no     *)
(* MyClass and an enclosing layer does, get(MyClass) returns the instance  *)
(* of the nearest such enclosing layer and builds nothing.                 *)
(***************************************************************************)
Holds(L, c) == c \in DOMAIN L.instances

\* the nearest layer below the topmost one that holds an instance of c, or 0
NearestHolding(ls, c) ==
    LET js == {j \in 1..(Len(ls) - 1) : Holds(ls[j], c)}
    IN IF js = {} THEN 0 ELSE CHOOSE j \in js : \A q \in js : q <= j

C4_FallsBackToOuterInstance ==
    [][(/\ last'.op = "get"
        /\ last'.key = ClsKey("MyClass")
        /\ ~Holds(layers[Len(layers)], "MyClass")
        /\ NearestHolding(layers, "MyClass") # 0)
         => /\ last'.out
                 = Ok(Last(layers[NearestHolding(layers, "MyClass")].instances["MyClass"]))
            /\ heap' = heap]_vars

(***************************************************************************)
(* C5.  Fallback to an outer registration: when MyClass is registered with *)
(* a factory function in an enclosing layer, the topmost layer has no      *)
(* registration of it and no layer holds an instance, get(MyClass) builds  *)
(* the instance with that factory function.                                *)
(***************************************************************************)
CustomFactoryBelow(ls, c) ==
    \E j \in 1..(Len(ls) - 1) :
        c \in DOMAIN ls[j].types /\ ls[j].types[c].factory \in Functions

C5_FallsBackToOuterRegistration ==
    [][(/\ last'.op = "get"
        /\ last'.key = ClsKey("MyClass")
        /\ "MyClass" \notin DOMAIN layers[Len(layers)].types
        /\ \A j \in 1..Len(layers) : ~Holds(layers[j], "MyClass")
        /\ CustomFactoryBelow(layers, "MyClass"))
         => /\ last'.out.kind = "ok"
            /\ heap'[last'.out.val].by = "mk42"]_vars

(***************************************************************************)
(* Caching: a caller that asks for Dependency and for                       *)
(* HasDependency(dep: Dependency), registers Dependency with the class      *)
(* MyClass as its factory, registers HasDependency with store=False, and    *)
(* opens and closes scopes.                                                 *)
(***************************************************************************)
CacheClasses == {"Dependency", "HasDependency"}

GetPlain == \E c \in CacheClasses : Get(ClsKey(c), NoKw, FALSE, FALSE)

RegisterOtherType ==
    RegisterCall(ClsKey("Dependency"), ClsKey("MyClass"), NoInfo, TRUE, NoKw)

RegisterNoStore ==
    RegisterCall(ClsKey("HasDependency"), NoneArg, NoInfo, FALSE, NoKw)

NextCache ==
    \/ GetPlain
    \/ RegisterOtherType
    \/ RegisterNoStore
    \/ Context
    \/ PopContext

SpecCache == Init /\ [][NextCache]_vars

(***************************************************************************)
(* Kwargs: a caller that asks for HasDependency without kwargs, and for     *)
(* HasDependency and Base(d: Derived) with kwargs (empty ones, or a         *)
(* Dependency of its own), and opens and closes scopes.                     *)
(***************************************************************************)
KwargsClasses == {"HasDependency", "Base"}

\* the kwargs a caller passes with get(c, ...): none, or an own Dependency
KwChoices(c) ==
    IF c = "HasDependency" THEN {EmptyMap, ("dep" :> 5)} ELSE {EmptyMap}

GetHasDependency == Get(ClsKey("HasDependency"), NoKw, FALSE, FALSE)

GetWithKwargs ==
    \E c \in KwargsClasses : \E kw \in KwChoices(c) :
        Get(ClsKey(c), Kw(kw), FALSE, FALSE)

NextKwargs ==
    \/ GetHasDependency
    \/ GetWithKwargs
    \/ Context
    \/ PopContext

SpecKwargs == Init /\ [][NextKwargs]_vars

\* the instance cache of class c in layer L, empty when c has none
Cache(L, c) == IF c \in DOMAIN L.instances THEN L.instances[c] ELSE <<>>

IsPrefix(s, t) == Len(s) <= Len(t) /\ SubSeq(t, 1, Len(s)) = s

(***************************************************************************)
(* C1.  Singleton by default: two successive get(C) without kwargs, the     *)
(* first of which succeeded for a class C that the topmost layer has        *)
(* registered with store=true, return the identical instance, and the       *)
(* second one builds nothing.                                               *)
(***************************************************************************)
C1_SingletonByDefault ==
    [][(/\ last.op = "get" /\ last'.op = "get"
        /\ last'.key = last.key
        /\ last.key.k = "cls"
        /\ ~last.many /\ ~last'.many
        /\ ~last.kwargs.given /\ ~last'.kwargs.given
        /\ last.out.kind = "ok"
        /\ last.key.n \in DOMAIN layers[Len(layers)].types
        /\ layers[Len(layers)].types[last.key.n].store)
         => /\ last'.out = last.out
            /\ heap' = heap]_vars

(***************************************************************************)
(* C2 as stated.  A get(T, kwargs=k) that returns has built a new object,   *)
(* and the cached-instance list of T is the same before and after the call  *)
(* in every layer.                                                          *)
(***************************************************************************)
C2_CacheOfTUntouched ==
    [][(/\ last'.op = "get"
        /\ last'.kwargs.given
        /\ last'.out.kind = "ok")
         => /\ last'.out.val > Len(heap)
            /\ Len(layers') = Len(layers)
            /\ \A j \in 1..Len(layers) :
                   Cache(layers'[j], last'.key.n) = Cache(layers[j], last'.key.n)]_vars

(***************************************************************************)
(* C2, amended.  A get(T, kwargs=k) that returns has built the object it    *)
(* returns during the call, and that object is in no instance cache         *)
(* afterwards; every instance cache keeps what it held, and what the call   *)
(* appended to the cache of a class c are objects built during the call,    *)
(* other than the one returned, whose class is c or a subclass of c (the    *)
(* dependencies that the call built and stored).                            *)
(***************************************************************************)
C2_NewAndNotCached ==
    [][(/\ last'.op = "get"
        /\ last'.kwargs.given
        /\ last'.out.kind = "ok")
         => /\ last'.out.val > Len(heap)
            /\ last'.out.val <= Len(heap')
            /\ Len(layers') = Len(layers)
            /\ \A j \in 1..Len(layers) : \A c \in Classes :
                   /\ IsPrefix(Cache(layers[j], c), Cache(layers'[j], c))
                   /\ \A q \in (Len(Cache(layers[j], c)) + 1)..Len(Cache(layers'[j], c)) :
                          LET x == Cache(layers'[j], c)[q]
                          IN /\ x > Len(heap)
                             /\ x # last'.out.val
                             /\ InSeq(c, Mro(heap'[x].cls))]_vars

\* get(T, kwargs=k) returned while the topmost layer holds a cached T, and
\* returned another object than any cached one
C2_Witness ==
    /\ last.op = "get"
    /\ last.kwargs.given
    /\ last.out.kind = "ok"
    /\ Cache(layers[Len(layers)], last.key.n) # <<>>
    /\ \A j \in 1..Len(layers) : ~InSeq(last.out.val, Cache(layers[j], last.key.n))

(***************************************************************************)
(* Adding: a caller that adds two ints and a Derived(Base) object, deep or  *)
(* shallow, asks for all instances of int, Derived, Base and object, and    *)
(* opens and closes scopes.                                                 *)
(***************************************************************************)
AddObjs == {1, 2, 4}

ManyClasses == {"int", "Derived", "Base", "object"}

AddAny == \E obj \in AddObjs : \E deep \in BOOLEAN : AddObj(obj, deep)

GetMany == \E c \in ManyClasses : Get(ClsKey(c), NoKw, TRUE, FALSE)

NextAdd ==
    \/ AddAny
    \/ GetMany
    \/ Context
    \/ PopContext

SpecAdd == Init /\ [][NextAdd]_vars

\* the lists xs(1), ..., xs(n) of the layers 1..n joined in that order
RECURSIVE CachesJoined(_, _, _)
CachesJoined(ls, c, j) ==
    IF j > Len(ls) THEN <<>> ELSE Cache(ls[j], c) \o CachesJoined(ls, c, j + 1)

RECURSIVE AddedJoined(_, _, _, _, _)
AddedJoined(hs, hp, ls, c, j) ==
    IF j > Len(ls) THEN <<>>
    ELSE StoredFor(hs, hp, ls[j].id, c) \o AddedJoined(hs, hp, ls, c, j + 1)

(***************************************************************************)
(* C9.  After add(x, deep=true), get returns x for the class of x and for   *)
(* every class of its __mro__ up to object.  add(x, deep=false) appends x   *)
(* to the instance cache of the exact class of x in the topmost layer, and  *)
(* every other instance cache of every layer is what it was.                *)
(***************************************************************************)
C9_Deep ==
    (last'.op = "add" /\ last'.deep)
        => \A q \in 1..Len(Mro(heap[last'.arg].cls)) :
               OutcomeOfGet(layers', heap', ClsKey(Mro(heap[last'.arg].cls)[q]))
                   = Ok(last'.arg)

C9_Shallow ==
    (last'.op = "add" /\ ~last'.deep)
        => /\ Len(layers') = Len(layers)
           /\ \A j \in 1..Len(layers) : \A c \in Classes :
                  Cache(layers'[j], c)
                      = IF j = Len(layers) /\ c = heap[last'.arg].cls
                        THEN Append(Cache(layers[j], c), last'.arg)
                        ELSE Cache(layers[j], c)

C9_AddDeepAndShallow == [][C9_Deep /\ C9_Shallow]_vars

\* a Derived object was added deep into a layer that held an object added
\* before, and get(Base) and get(object) now return the Derived object
C9_Witness ==
    /\ last.op = "add"
    /\ last.deep
    /\ heap[last.arg].cls = "Derived"
    /\ Len(Cache(layers[Len(layers)], "object")) >= 2
    /\ OutcomeOfGet(layers, heap, ClsKey("Base")) = Ok(last.arg)
    /\ OutcomeOfGet(layers, heap, ClsKey("object")) = Ok(last.arg)

(***************************************************************************)
(* C10.  get(T, many=true) returns the instance caches of T of the layers,  *)
(* joined from the base layer to the topmost layer, and that is: the        *)
(* objects added as T or, with deep=true, as a subclass of T, in the order  *)
(* of the add calls within a layer.                                         *)
(***************************************************************************)
C10_ManyInOrder ==
    (last.op = "get" /\ last.many)
        => /\ last.out = OkMany(CachesJoined(layers, last.key.n, 1))
           /\ last.out = OkMany(AddedJoined(hist, heap, layers, last.key.n, 1))

\* get(T, many=true) returned objects of two layers, two of them of one layer,
\* and one an instance of a subclass of T
C10_Witness ==
    /\ last.op = "get"
    /\ last.many
    /\ Len(layers) = 2
    /\ Cache(layers[1], last.key.n) # <<>>
    /\ Cache(layers[2], last.key.n) # <<>>
    /\ Len(last.out.vals) = 3
    /\ \E q \in 1..3 : heap[last.out.vals[q]].cls # last.key.n

(***************************************************************************)
(* Cycles: a caller that asks for the classes of the constructor cycle      *)
(* A(c: "C"), C(b: B), B(a: A), with and without kwargs, registers C        *)
(* (@gimme.dependency), and opens and closes scopes.                        *)
(***************************************************************************)
CycleClasses == {"A", "B", "C"}

GetCyclic ==
    \E c \in CycleClasses : \E kw \in {NoKw, Kw(EmptyMap)} :
        Get(ClsKey(c), kw, FALSE, FALSE)

RegisterC == RegisterCall(ClsKey("C"), NoneArg, NoInfo, TRUE, NoKw)

NextCycle ==
    \/ GetCyclic
    \/ RegisterC
    \/ Context
    \/ EnterWith
    \/ PopContext
    \/ ExitWith

SpecCycle == Init /\ [][NextCycle]_vars

(***************************************************************************)
(* Lazy attributes: a caller that asks for LA, whose lazy attribute         *)
(* b = gimme.later("LB") names a class LB(a: LA), registers LB, reads the   *)
(* attribute b of an LA object, and opens and closes scopes.                *)
(***************************************************************************)
GetLA == Get(ClsKey("LA"), NoKw, FALSE, FALSE)

RegisterLB == RegisterCall(ClsKey("LB"), NoneArg, NoInfo, TRUE, NoKw)

ReadB == \E obj \in 1..Len(heap) : heap[obj].cls = "LA" /\ ReadAttribute(obj, 1)

NextLazy ==
    \/ GetLA
    \/ RegisterLB
    \/ ReadB
    \/ Context
    \/ PopContext

SpecLazy == Init /\ [][NextLazy]_vars

\* whether the name is one that get(name) can look up in the layer
KnownByName(L, name) == name \in DOMAIN L.types_by_str

\* the message of the cycle met by a get of the class c
CycleFrom(c) ==
    CASE c = "A" -> "A -> C -> B"
      [] c = "B" -> "B -> A -> C"
      [] c = "C" -> "C -> B -> A"

(***************************************************************************)
(* C6.  Cycle detection: with A needs C, C needs B, B needs A, and the      *)
(* forward reference "C" of A known by name in the topmost layer (or made   *)
(* known by the get of C itself), a get of a class of the cycle raises      *)
(* CircularDependency whose message is the names of the classes on the      *)
(* lookup stack, in request order, joined by " -> ": get(A) raises it with  *)
(* "A -> C -> B".  It builds nothing and leaves every lookup stack empty.   *)
(***************************************************************************)
C6_CycleDetected ==
    [][(/\ last'.op = "get"
        /\ last'.key.n \in CycleClasses
        /\ (last'.key.n = "C" \/ KnownByName(layers[Len(layers)], "C")))
         => /\ last'.out = Raise("CircularDependency", CycleFrom(last'.key.n))
            /\ heap' = heap
            /\ \A j \in 1..Len(layers') : layers'[j].lookup_stack = <<>>]_vars

\* get(A) raised CircularDependency with the message "A -> C -> B" in a scope
C6_Witness ==
    /\ last.op = "get"
    /\ last.key = ClsKey("A")
    /\ last.out = Raise("CircularDependency", "A -> C -> B")
    /\ Len(layers) = 2

(***************************************************************************)
(* C7 as stated, where no layer holds another LA than the one get(LA)       *)
(* returned.  get(LA) succeeds, and the first read of the attribute b on    *)
(* the LA that get(LA) has just returned, LB being known by name, yields    *)
(* an LB whose attribute a is that LA.                                      *)
(***************************************************************************)
ReadsAfterGet ==
    /\ last.op = "get"
    /\ last.key = ClsKey("LA")
    /\ last.out.kind = "ok"
    /\ last'.op = "read"
    /\ last'.arg = last.out.val
    /\ "b" \notin DOMAIN heap[last'.arg].fields
    /\ \E j \in 1..Len(layers) : KnownByName(layers[j], "LB")

AddDependency == AddObj(5, TRUE)

GetHasDep == Get(ClsKey("HasDependency"), NoKw, FALSE, FALSE)

NextDeps ==
    \/ AddDependency
    \/ GetHasDep
    \/ Context
    \/ PopContext

SpecDeps == Init /\ [][NextDeps]_vars

(***************************************************************************)
(* C11.  Dependencies are resolved through the full layered view: a         *)
(* HasDependency built by get(HasDependency) receives as dep the            *)
(* Dependency cached last in the topmost layer when that layer holds one,   *)
(* and otherwise the one cached last in the nearest enclosing layer that    *)
(* holds one.                                                               *)
(***************************************************************************)
C11_DependencyFromLayeredView ==
    [][(/\ last'.op = "get"
        /\ last'.key = ClsKey("HasDependency")
        /\ last'.out.kind = "ok"
        /\ last'.out.val > Len(heap))
         => LET top == layers[Len(layers)]
                j == NearestHolding(layers, "Dependency")
            IN /\ Holds(top, "Dependency")
                    => heap'[last'.out.val].fields["dep"] = Last(Cache(top, "Dependency"))
               /\ (~Holds(top, "Dependency") /\ j # 0)
                    => heap'[last'.out.val].fields["dep"]
                           = Last(Cache(layers[j], "Dependency"))]_vars

(***************************************************************************)
(* Collections: a caller that adds a Dependency object of its own, asks     *)
(* for classes whose constructor parameter xs is annotated with a generic   *)
(* hint over Dependency (List, Sequence, Set, Tuple[T, ...], Dict,          *)
(* Tuple[T, T], List[List[T]]), and opens and closes scopes.                *)
(***************************************************************************)
WantsCollection == {"WantsList", "WantsSeq", "WantsSet", "WantsTuple"}

WantsInvalid == {"WantsDict", "WantsPair", "WantsNested"}

\* the caller works with one of the classes at a time
OnlyClassInUse(c) ==
    \A j \in 1..Len(layers) : \A c2 \in (WantsCollection \cup WantsInvalid) \ {c} :
        c2 \notin DOMAIN layers[j].types

GetWants ==
    \E c \in WantsCollection \cup WantsInvalid :
        OnlyClassInUse(c) /\ Get(ClsKey(c), NoKw, FALSE, FALSE)

\* the caller adds its Dependency object to a layer that holds none
AddDependencyOnce == ~Holds(layers[Len(layers)], "Dependency") /\ AddObj(5, TRUE)

NextCollect ==
    \/ AddDependencyOnce
    \/ GetWants
    \/ Context
    \/ PopContext

SpecCollect == Init /\ [][NextCollect]_vars

\* what get(c, many=True) would return in the state (ls, hp)
ManyOf(ls, hp, c) ==
    LayeredGet([layers |-> ls, heap |-> hp, log |-> <<>>, rev |-> FALSE],
               ClsKey(c), TRUE, NoKw).out.vals

\* the container the annotation of the class's parameter denotes
DenotedContainer(c) ==
    CASE c = "WantsSet" -> "set"
      [] c = "WantsTuple" -> "tuple"
      [] OTHER -> "list"

MaxResolvers == 3

\* the resolvers a client adds: the base Resolver (raises CannotResolve), the
\* AttributeResolver (raises PartiallyResolved) and one that supplies no
\* arguments
ChainResolvers == {"Resolver", "AttributeResolver", "NoArgs"}

ChainClasses == {"Dependency"}

AddResolverAny ==
    \E resolver \in ChainResolvers :
       /\ Len(layers[Len(layers)].resolvers) < MaxResolvers
       /\ ~InSeq(resolver, layers[Len(layers)].resolvers)
       /\ AddResolverCall(resolver)

GetSimple == \E c \in ChainClasses : Get(ClsKey(c), NoKw, FALSE, FALSE)

NextChain == AddResolverAny \/ GetSimple \/ Context \/ PopContext

SpecChain == Init /\ [][NextChain]_vars

\* the invocations of a layer's resolvers during a call, with their results
ChainEvents(log, lid) ==
    SelectSeq(log, LAMBDA ev : ev.e \in {"create", "raised", "returned"} /\ ev.lid = lid)

Skipped(ev) == ev.e = "raised" /\ ev.n \in {"CannotResolve", "PartiallyResolved"}

\* evs invokes the resolvers of chain one by one from the first, goes on to
\* the next one exactly after a CannotResolve or a PartiallyResolved, and
\* stops at the first resolver that ends otherwise
InChainOrder(evs, chain, lid) ==
    /\ Len(evs) % 2 = 0
    /\ Len(evs) <= 2 * Len(chain)
    /\ \A q \in 1..(Len(evs) \div 2) :
          /\ evs[2 * q - 1] = Event("create", chain[q], q, lid)
          /\ evs[2 * q].e \in {"raised", "returned"}
          /\ evs[2 * q].obj = q
          /\ 2 * q = Len(evs) \/ Skipped(evs[2 * q])
          /\ 2 * q < Len(evs) \/ q = Len(chain) \/ ~Skipped(evs[2 * q])

\* the positions of the log at which a resolver returned
Returns(log) == {j \in 1..Len(log) : log[j].e = "returned"}

\* C13: add_resolver puts the new resolver first in the chain of the current
\* layer and leaves the rest of that chain and every other layer as they
\* were; a get of a class without dependencies invokes the resolvers of each
\* layer it tries in the order of that layer's chain, goes past a resolver
\* only when it raised CannotResolve or PartiallyResolved, and the object the
\* first other resolver built is the result of the get
C13_ChainOrder ==
    [][/\ (last'.op = "add_resolver") =>
           /\ Len(layers') = Len(layers)
           /\ layers'[Len(layers)].resolvers
                 = <<last'.key.n>> \o layers[Len(layers)].resolvers
           /\ \A i \in 1..(Len(layers) - 1) : layers'[i] = layers[i]
       /\ (last'.op = "get" /\ last'.key.k = "cls" /\ last'.key.n \in ChainClasses) =>
           /\ \A i \in 1..Len(layers) :
                 InChainOrder(ChainEvents(last'.log, layers[i].id),
                              layers[i].resolvers, layers[i].id)
           /\ Cardinality(Returns(last'.log)) <= 1
           /\ \A j \in Returns(last'.log) :
                 /\ j > 1
                 /\ last'.log[j - 1].e = "made"
                 /\ last'.out = Ok(last'.log[j - 1].obj)
           /\ \/ Returns(last'.log) # {}
              \/ ChainEvents(last'.log, TopId(layers)) = <<>>
              \/ last'.out.kind # "ok"
      ]_vars

\* a get in a scope whose chain was built by add_resolver(NoArgs) and then
\* add_resolver(AttributeResolver): the newest resolver was tried first and
\* raised PartiallyResolved, the second one built the object, the
\* TypeHintingResolver after it was not invoked
C13_Witness ==
    /\ last.op = "get"
    /\ last.key = ClsKey("Dependency")
    /\ layers[Len(layers)].resolvers
          = <<"AttributeResolver", "NoArgs", "TypeHintingResolver">>
    /\ \E j \in 1..Len(last.log) :
          /\ last.log[j] = Event("raised", "PartiallyResolved", 1, TopId(layers))
          /\ \E q \in (j + 1)..Len(last.log) :
                last.log[q] = Event("returned", "NoArgs", 2, TopId(layers))
    /\ \A j \in 1..Len(last.log) : last.log[j].n # "TypeHintingResolver"
    /\ last.out.kind = "ok"


(***************************************************************************)
(* Resolution that fails: chains in which no resolver can build the        *)
(* class, set as the tests set them (layer.resolvers = [...])              *)
(***************************************************************************)
SetResolvers(L, resolvers) == [L EXCEPT !.resolvers = resolvers]

SetResolversCall(resolvers) ==
    /\ layers' = [layers EXCEPT ![Len(layers)] = SetResolvers(@, resolvers)]
    /\ last' = Call("set_resolvers", NoKey, NoKw, FALSE, 0, FALSE, Ok(0), <<>>)
    /\ UNCHANGED <<heap, hist, withs>>

FailingChains ==
    {<<"Resolver", "Resolver">>,
     <<"Resolver", "AttributeResolver">>,
     <<"TypeHintingResolver", "AttributeResolver">>}

\* object has no dependencies; int has no signature to inspect; B needs an
\* A, whose annotation "C" names a class nobody registered
UnresolvedClasses == {"object", "int", "B"}

SetFailing ==
    \E resolvers \in FailingChains :
       /\ layers[Len(layers)].resolvers # resolvers
       /\ SetResolversCall(resolvers)

\* the caller asks for an object only where no layer has a resolver that
\* builds one
GetUnresolved ==
    \E c \in UnresolvedClasses :
       /\ (c = "object") =>
             \A i \in 1..Len(layers) : ~InSeq("TypeHintingResolver", layers[i].resolvers)
       /\ Get(ClsKey(c), NoKw, FALSE, FALSE)

NextUnresolved == SetFailing \/ GetUnresolved \/ Context \/ PopContext

SpecUnresolved == Init /\ [][NextUnresolved]_vars

\* the keys of the resolve calls of the layer lid that are in progress after
\* the first n events of the log, outermost first
RECURSIVE OpenIn(_, _, _)
OpenIn(log, n, lid) ==
    IF n = 0 THEN <<>>
    ELSE IF log[n].lid = lid /\ log[n].e = "enter"
    THEN Append(OpenIn(log, n - 1, lid), log[n].n)
    ELSE IF log[n].lid = lid /\ log[n].e = "exit"
    THEN Front(OpenIn(log, n - 1, lid))
    ELSE OpenIn(log, n - 1, lid)

RECURSIVE Arrowed(_)
Arrowed(names) ==
    IF names = <<>> THEN ""
    ELSE IF Len(names) = 1 THEN names[1]
    ELSE Arrowed(Front(names)) \o " -> " \o Last(names)

\* the resolve call that ends at the event p of the log went through the
\* whole chain of its layer: its last resolver was invoked and raised
\* CannotResolve or PartiallyResolved as the ones before it
AllRaised(log, p, ls) ==
    /\ p > 1
    /\ Skipped(log[p - 1])
    /\ \E i \in 1..Len(ls) :
          /\ ls[i].id = log[p].lid
          /\ log[p - 1].lid = ls[i].id
          /\ log[p - 1].obj = Len(ls[i].resolvers)

\* C14: a resolve call in which every resolver of the layer raised
\* CannotResolve or PartiallyResolved raises CannotResolve with the names of
\* the layer's resolve calls in progress, outermost first and the key being
\* resolved last, joined by arrows; a get that ends with such a call of the
\* base layer raises CannotResolve with the name of its key; no resolve call and
\* no get ends with PartiallyResolved
C14_UnresolvedMessage ==
    [][(last'.op = "get") =>
          /\ last'.out.kind # "PartiallyResolved"
          /\ \A p \in 1..Len(last'.log) :
                (last'.log[p].e = "exit") =>
                   /\ last'.log[p].out.kind # "PartiallyResolved"
                   /\ AllRaised(last'.log, p, layers) =>
                         last'.log[p].out
                            = Raise("CannotResolve",
                                    Arrowed(OpenIn(last'.log, p - 1, last'.log[p].lid)))
          /\ (/\ last'.log # <<>>
              /\ Last(last'.log).e = "exit"
              /\ Last(last'.log).lid = layers[1].id
              /\ AllRaised(last'.log, Len(last'.log), layers)) =>
                 last'.out = Raise("CannotResolve", NameOf(last'.key))
      ]_vars

\* get(B) in a scope whose chain ends with the AttributeResolver: the nested
\* resolve of A ended after the PartiallyResolved of the last resolver, with
\* CannotResolve "B -> A"; the get raised CannotResolve "B"
C14_Witness ==
    /\ last.op = "get"
    /\ last.key = ClsKey("B")
    /\ layers[Len(layers)].resolvers = <<"TypeHintingResolver", "AttributeResolver">>
    /\ \E p \in 2..Len(last.log) :
          /\ last.log[p].e = "exit"
          /\ last.log[p].lid = TopId(layers)
          /\ last.log[p].out = Raise("CannotResolve", "B -> A")
          /\ last.log[p - 1] = Event("raised", "PartiallyResolved", 2, TopId(layers))
    /\ last.out = Raise("CannotResolve", "B")


(***************************************************************************)
(* Calls with invalid arguments beside valid ones                          *)
(***************************************************************************)
\* LayeredRepository.create
CreateCall(key) ==
    \E r \in {Create(World(FALSE), Len(layers), key, Layered, NoKw)} :
       /\ Fits(r.w, r.w.log)
       /\ layers' = r.w.layers
       /\ heap' = r.w.heap
       /\ last' = Call("create", key, NoKw, FALSE, 0, FALSE, r.out, r.w.log)
       /\ hist' = hist \o HistOf(Stored(r.w.log), TRUE)
       /\ UNCHANGED withs

IntInfo == [given |-> TRUE, info |-> DependencyInfo("int", "int", TRUE, NoKw)]

RegisterBoth == RegisterCall(ClsKey("int"), NoneArg, IntInfo, TRUE, NoKw)

RegisterNeither == RegisterCall(NoneArg, NoneArg, NoInfo, TRUE, NoKw)

RegisterInvalid == RegisterCall(StrKey("invalid"), NoneArg, NoInfo, TRUE, NoKw)

RegisterValid ==
    \/ RegisterCall(ClsKey("Dependency"), NoneArg, NoInfo, TRUE, NoKw)
    \/ RegisterCall(NoneArg, NoneArg, IntInfo, TRUE, NoKw)

CreateInvalid == \E key \in {StrKey("invalid"), FnKey("mk42")} : CreateCall(key)

CreateValid == CreateCall(ClsKey("Dependency"))

NextConfig ==
    \/ RegisterBoth
    \/ RegisterNeither
    \/ RegisterInvalid
    \/ RegisterValid
    \/ CreateInvalid
    \/ CreateValid
    \/ Context
    \/ PopContext

SpecConfig == Init /\ [][NextConfig]_vars

\* every layer keeps its registrations, its aliases, its instances and its
\* lookup stack, and no object is built
NothingChanged ==
    /\ Len(layers') = Len(layers)
    /\ \A i \in 1..Len(layers) :
          /\ layers'[i].types = layers[i].types
          /\ layers'[i].types_by_str = layers[i].types_by_str
          /\ layers'[i].instances = layers[i].instances
          /\ layers'[i].lookup_stack = layers[i].lookup_stack
    /\ heap' = heap

\* C15: register with both cls and info, and register with neither, raise
\* ValueError; register with a cls that is not a class raises TypeError;
\* create with a key that is not a class raises TypeError; each of these calls
\* leaves the registrations, aliases, instances and lookup stacks as they were
C15_ConfigurationErrors ==
    [][/\ (RegisterBoth \/ RegisterNeither) =>
             (last'.out.kind = "ValueError" /\ NothingChanged)
       /\ (RegisterInvalid \/ CreateInvalid) =>
             (last'.out.kind = "TypeError" /\ NothingChanged)
      ]_vars

\* register(cls=int, info=...) raised ValueError in a layer that holds a
\* registration and an instance of Dependency: int was not registered
C15_Witness ==
    /\ last.op = "register"
    /\ last.key = ClsKey("int")
    /\ last.out.kind = "ValueError"
    /\ "int" \notin DOMAIN layers[Len(layers)].types
    /\ "Dependency" \in DOMAIN layers[Len(layers)].instances


(***************************************************************************)
(* Registration of classes with ancestors, and of two classes that have    *)
(* the same name                                                           *)
(***************************************************************************)
RegisteredClasses == {"MyList", "Dependency", "other.Dependency"}

RegisterAny ==
    \E c \in RegisteredClasses : RegisterCall(ClsKey(c), NoneArg, NoInfo, TRUE, NoKw)

NextRegister == RegisterAny \/ Context \/ PopContext

SpecRegister == Init /\ [][NextRegister]_vars

\* the classes of the ancestor chain of c, c itself included
Ancestors(c) == {Mro(c)[j] : j \in 1..Len(Mro(c))}

\* the registration register(T) makes when it is given the class alone
RegistrationOf(T) == DependencyInfo(T, T, TRUE, NoKw)

\* C16: after register(T) every class of T's ancestor chain has a
\* registration in the current layer and the layer has an alias under the
\* class's name; every registration that is new is T's and belongs to a class
\* of the chain, whose alias names that class; register(MyList) on an empty
\* layer leaves exactly MyList, list and object, registered as MyList and
\* known by their names
C16_AncestorsRegistered ==
    [][(last'.op = "register" /\ last'.out.kind = "ok" /\ last'.key.k = "cls") =>
          /\ \A c \in Ancestors(last'.key.n) :
                /\ c \in DOMAIN layers'[Len(layers)].types
                /\ ClassName(c) \in DOMAIN layers'[Len(layers)].types_by_str
          /\ \A c \in DOMAIN layers'[Len(layers)].types \ DOMAIN layers[Len(layers)].types :
                /\ c \in Ancestors(last'.key.n)
                /\ layers'[Len(layers)].types[c] = RegistrationOf(last'.key.n)
                /\ layers'[Len(layers)].types_by_str[ClassName(c)] = c
          /\ (last'.key.n = "MyList" /\ layers[Len(layers)].types = EmptyMap) =>
                /\ layers'[Len(layers)].types
                      = [c \in {"MyList", "list", "object"} |-> RegistrationOf("MyList")]
                /\ layers'[Len(layers)].types_by_str
                      = [c \in {"MyList", "list", "object"} |-> c]
      ]_vars

\* register(MyList) in a layer where Dependency had been registered: list and
\* MyList got MyList's registration, object kept the one of Dependency
C16_Witness ==
    /\ last.op = "register"
    /\ last.key = ClsKey("MyList")
    /\ DOMAIN layers[Len(layers)].types = {"MyList", "list", "object", "Dependency"}
    /\ layers[Len(layers)].types["list"] = RegistrationOf("MyList")
    /\ layers[Len(layers)].types["MyList"] = RegistrationOf("MyList")
    /\ layers[Len(layers)].types["object"] = RegistrationOf("Dependency")


(***************************************************************************)
(* Functions as keys: mk42 takes no arguments, factory takes a Dependency  *)
(* and returns a dict that holds it                                        *)
(***************************************************************************)
GetFunction == \E f \in Functions : Get(FnKey(f), NoKw, FALSE, FALSE)

NextFunction == GetFunction \/ AddDependencyOnce \/ Context \/ PopContext

SpecFunction == Init /\ [][NextFunction]_vars

\* the object inst is in the instance cache of some layer
InSomeCache(ls, inst) ==
    \E i \in 1..Len(ls) : \E c \in DOMAIN ls[i].instances : InSeq(inst, ls[i].instances[c])

\* C17: a get of a function that returns builds a new object by calling the
\* function; the object is in no layer's instance cache; every argument the
\* function was called with is in a cache, and one that was built during the
\* call is the newest instance of its class in the current layer
C17_FunctionResultNotCached ==
    [][(last'.op = "get" /\ last'.key.k = "fn" /\ last'.out.kind = "ok") =>
          /\ last'.out.val > Len(heap)
          /\ heap'[last'.out.val].by = last'.key.n
          /\ ~InSomeCache(layers', last'.out.val)
          /\ \A j \in 1..Len(Params(last'.key.n)) :
                LET dep == heap'[last'.out.val].fields[Params(last'.key.n)[j].name]
                IN /\ dep > 0
                   /\ heap'[dep].cls = Params(last'.key.n)[j].ann.c
                   /\ InSomeCache(layers', dep)
                   /\ dep > Len(heap) =>
                         /\ heap'[dep].cls \in DOMAIN layers'[Len(layers)].instances
                         /\ Last(layers'[Len(layers)].instances[heap'[dep].cls]) = dep
      ]_vars

\* gimme.that(factory) in a scope that had no Dependency: the Dependency
\* built for the parameter a is cached in the scope, the dict is not cached
C17_Witness ==
    /\ last.op = "get"
    /\ last.key = FnKey("factory")
    /\ last.out.kind = "ok"
    /\ Len(layers) = 2
    /\ \E ev \in {last.log[j] : j \in 1..Len(last.log)} :
          /\ ev.e = "stored"
          /\ ev.obj = heap[last.out.val].fields["a"]
          /\ ev.lid = TopId(layers)
    /\ layers[2].instances["Dependency"] = <<heap[last.out.val].fields["a"]>>
    /\ ~InSomeCache(layers, last.out.val)


\* the registration of class c that is nearest to the top of the stack says
\* store=False
RegisteredNoStore(ls, c) ==
    \E j \in 1..Len(ls) :
       /\ c \in DOMAIN ls[j].types
       /\ ~ls[j].types[c].store
       /\ \A i \in (j + 1)..Len(ls) : c \notin DOMAIN ls[i].types

\* C18: a get without kwargs of a class registered with store=False that
\* returns has built a new object, and the object is in no instance cache
C18_NoStoreNeverCached ==
    [][(/\ last'.op = "get"
        /\ last'.key.k = "cls"
        /\ ~last'.kwargs.given
        /\ RegisteredNoStore(layers, last'.key.n)
        /\ last'.out.kind = "ok")
         => /\ last'.out.val > Len(heap)
            /\ ~InSomeCache(layers', last'.out.val)]_vars


(***************************************************************************)
(* Registration kwargs: MyClass(a=None) is registered with kwargs={a: 4}   *)
(* and requested without kwargs and with empty kwargs                      *)
(***************************************************************************)
RegisteredKwargs == Kw("a" :> -4)

RegisterWithKwargs ==
    RegisterCall(ClsKey("MyClass"), NoneArg, NoInfo, TRUE, RegisteredKwargs)

GetRegistered ==
    \E kwargs \in {NoKw, Kw(EmptyMap)} : Get(ClsKey("MyClass"), kwargs, FALSE, FALSE)

NextRegKwargs == RegisterWithKwargs \/ GetRegistered \/ Context \/ PopContext

SpecRegKwargs == Init /\ [][NextRegKwargs]_vars

\* C19: a get without kwargs that has to create MyClass in a layer where
\* MyClass is registered with kwargs={a: 4} returns an object built with a=4
C19_RegistrationKwargsReachFactory ==
    [][(/\ last'.op = "get"
        /\ last'.key = ClsKey("MyClass")
        /\ ~last'.kwargs.given
        /\ "MyClass" \in DOMAIN layers[Len(layers)].types
        /\ layers[Len(layers)].types["MyClass"].kwargs = RegisteredKwargs
        /\ "MyClass" \notin DOMAIN layers[Len(layers)].instances)
         => /\ last'.out.kind = "ok"
            /\ heap'[last'.out.val].fields["a"] = -4]_vars


(***************************************************************************)
(* Calls that end in every way: with an instance (Dependency), with        *)
(* CannotResolve (int, whose signature cannot be inspected), with          *)
(* CircularDependency (C, which needs B, which needs A, which needs C) and *)
(* with the TypeError of a factory that is given a keyword it does not     *)
(* take                                                                    *)
(***************************************************************************)
UnwindClasses == {"Dependency", "int", "C"}

\* the caller works with one of the classes at a time
OnlyUnwindClass(c) ==
    \A j \in 1..Len(layers) : \A c2 \in UnwindClasses \ {c} :
        c2 \notin DOMAIN layers[j].types

GetUnwind ==
    \E c \in UnwindClasses :
        OnlyUnwindClass(c) /\ Get(ClsKey(c), NoKw, FALSE, FALSE)

GetUnexpectedKeyword ==
    /\ OnlyUnwindClass("Dependency")
    /\ Get(ClsKey("Dependency"), Kw("x" :> 5), FALSE, FALSE)

CreateUnwind ==
    \E c \in UnwindClasses : OnlyUnwindClass(c) /\ CreateCall(ClsKey(c))

NextUnwind ==
    \/ GetUnwind
    \/ GetUnexpectedKeyword
    \/ CreateUnwind
    \/ Context
    \/ PopContext

SpecUnwind == Init /\ [][NextUnwind]_vars

\* C20: between the calls the lookup stack of every layer is empty, and every
\* resolve call the last get or create entered has been left
C20_LookupStackUnwinds ==
    /\ \A j \in 1..Len(layers) : layers[j].lookup_stack = <<>>
    /\ \A j \in 1..Len(layers) : OpenIn(last.log, Len(last.log), layers[j].id) = <<>>

\* a get in a scope was given a keyword the class does not take: the resolve
\* of Dependency was entered, the call of the class raised TypeError, and the
\* lookup stacks are empty
C20_Witness ==
    /\ last.op = "get"
    /\ last.out.kind = "TypeError"
    /\ Len(layers) = 2
    /\ \E j \in 1..Len(last.log) :
          last.log[j] = Event("enter", "Dependency", 0, TopId(layers))
    /\ \A j \in 1..Len(layers) : layers[j].lookup_stack = <<>>


(***************************************************************************)
(* Scopes: with-blocks, and context() and pop_context() as statements      *)
(* inside and outside them, up to three layers deep                        *)
(***************************************************************************)
ContextDeep == ContextWithin(MaxScopes)

EnterDeep == EnterWithin(MaxScopes)

NextScopes == ContextDeep \/ EnterDeep \/ PopContext \/ ExitWith

SpecScopes == Init /\ [][NextScopes]_vars

\* C21: when a with-block is left, the layers are those the block found when
\* it was entered, in the same order
C21_ExitRestoresLayers ==
    [][(last'.op = "exit") => LayerIds(layers') = Last(withs).below]_vars


\* C22: a get without kwargs that creates Dependency in a layer where
\* Dependency is registered with the class MyClass as its factory leaves the
\* object it returns in that layer's instance cache of Dependency
C22_StoredUnderRequestedClass ==
    [][(/\ last'.op = "get"
        /\ last'.key = ClsKey("Dependency")
        /\ ~last'.kwargs.given
        /\ last'.out.kind = "ok"
        /\ "Dependency" \in DOMAIN layers[Len(layers)].types
        /\ layers[Len(layers)].types["Dependency"].factory = "MyClass"
        /\ layers[Len(layers)].types["Dependency"].store)
         => /\ "Dependency" \in DOMAIN layers'[Len(layers)].instances
            /\ InSeq(last'.out.val, layers'[Len(layers)].instances["Dependency"])]_vars


(***************************************************************************)
(* Requests by name: Dependency and a second class of that name are        *)
(* registered, and the names "Dependency" and "unknown" are asked for      *)
(***************************************************************************)
NamedClasses == {"Dependency", "other.Dependency"}

RegisterNamed ==
    \E c \in NamedClasses : RegisterCall(ClsKey(c), NoneArg, NoInfo, TRUE, NoKw)

GetByName == \E n \in {"Dependency", "unknown"} : Get(StrKey(n), NoKw, FALSE, FALSE)

NextByName == RegisterNamed \/ GetByName \/ Context \/ PopContext

SpecByName == Init /\ [][NextByName]_vars

\* the layer nearest to the top of ls that has an alias n: 0 when none has
RECURSIVE NearestKnowing(_, _, _)
NearestKnowing(ls, n, j) ==
    IF j = 0 THEN 0
    ELSE IF n \in DOMAIN ls[j].types_by_str THEN j
    ELSE NearestKnowing(ls, n, j - 1)

\* C23: a get by a name that no layer has an alias for raises CannotResolve;
\* a get by a name that some layer has an alias for returns an instance of
\* the class the alias of the nearest such layer names, also when that layer
\* is an enclosing one
C23_StringLookup ==
    [][(last'.op = "get" /\ last'.key.k = "str") =>
          LET j == NearestKnowing(layers, last'.key.n, Len(layers))
          IN IF j = 0
             THEN last'.out.kind = "CannotResolve"
             ELSE /\ last'.out.kind = "ok"
                  /\ heap'[last'.out.val].cls = layers[j].types_by_str[last'.key.n]
      ]_vars

\* in a scope that has no alias "Dependency" a get by that name returned an
\* instance of the class the base layer registered
C23_Witness ==
    /\ last.op = "get"
    /\ last.key = StrKey("Dependency")
    /\ Len(layers) = 2
    /\ "Dependency" \notin DOMAIN layers[2].types_by_str
    /\ "Dependency" \in DOMAIN layers[1].types_by_str
    /\ last.out.kind = "ok"
    /\ heap[last.out.val].cls = layers[1].types_by_str["Dependency"]


(***************************************************************************)
(* Eager attributes: class Eager declares dep = later(Dependency,          *)
(* lazy=False); Eager is requested, its attribute is read, and a client    *)
(* may put an AttributeResolver in front of the current layer's chain      *)
(***************************************************************************)
GetEager == Get(ClsKey("Eager"), NoKw, FALSE, FALSE)

ReadDep == \E obj \in 1..Len(heap) : heap[obj].cls = "Eager" /\ ReadAttribute(obj, 1)

AddAttributeResolver ==
    /\ ~InSeq("AttributeResolver", layers[Len(layers)].resolvers)
    /\ AddResolverCall("AttributeResolver")

NextEager == GetEager \/ ReadDep \/ AddAttributeResolver \/ Context \/ PopContext

SpecEager == Init /\ [][NextEager]_vars

\* the chain main._repository gives the base layer
DefaultChain == <<"TypeHintingResolver">>

\* C24: when a get in the repository as the library set it up (every layer
\* with the default chain) instantiates Eager, whose attribute dep is
\* declared with lazy=False, an instance of Dependency is in a layer's
\* cache when the get returns, before any read of the attribute
C24_EagerAttributeResolved ==
    [][(/\ last'.op = "get"
        /\ last'.key = ClsKey("Eager")
        /\ last'.out.kind = "ok"
        /\ last'.out.val > Len(heap)
        /\ \A i \in 1..Len(layers) : layers[i].resolvers = DefaultChain)
          => \E i \in 1..Len(layers') : Cache(layers'[i], "Dependency") # <<>>
      ]_vars


(***************************************************************************)
(* Registering again: Base and its subclass Derived are registered with    *)
(* and without a factory and a store flag, and an instance of Derived is   *)
(* added                                                                   *)
(***************************************************************************)
RegisterAgain ==
    \E c \in {"Base", "Derived"} : \E store \in BOOLEAN :
       \E factory \in {NoneArg, ClsKey("Derived")} :
          /\ (factory = NoneArg \/ c = "Base")
          /\ RegisterCall(ClsKey(c), factory, NoInfo, store, NoKw)

\* one instance of Derived is added to a layer
AddDerived ==
    /\ "Derived" \notin DOMAIN layers[Len(layers)].instances
    /\ \E deep \in BOOLEAN : AddObj(4, deep)

NextAgain == RegisterAgain \/ AddDerived \/ Context \/ PopContext

SpecAgain == Init /\ [][NextAgain]_vars

\* C25: a register or an add leaves every registration that a layer has as
\* it was: each class with an entry in a layer's registration table has the
\* same entry after the call
C25_FirstWriterWins ==
    [][(last'.op \in {"register", "add"}) =>
          /\ Len(layers') = Len(layers)
          /\ \A i \in 1..Len(layers) : \A c \in DOMAIN layers[i].types :
                /\ c \in DOMAIN layers'[i].types
                /\ layers'[i].types[c] = layers[i].types[c]
      ]_vars

\* register(Base, store=False) in a layer where Base had been registered as
\* an ancestor of Derived: Base still has the registration of Derived
C25_Witness ==
    /\ last.op = "register"
    /\ last.key = ClsKey("Base")
    /\ ~last.deep
    /\ last.out.kind = "ok"
    /\ layers[Len(layers)].types["Base"] = DependencyInfo("Derived", "Derived", TRUE, NoKw)




\* C26: a register of a class that has a registration in the current layer
\* replaces it: afterwards the entry of the class is a registration of that
\* class with the store flag of the call
C26_ReRegisterReplaces ==
    [][(/\ last'.op = "register"
        /\ last'.out.kind = "ok"
        /\ last'.key.n \in DOMAIN layers[Len(layers)].types)
          => /\ layers'[Len(layers)].types[last'.key.n].cls = last'.key.n
             /\ layers'[Len(layers)].types[last'.key.n].store = last'.deep
      ]_vars


\* C27: a register leaves every alias that a layer has as it was: a name that
\* stands for a class in a layer's alias table stands for the same class
\* after a class of the same name is registered
C27_AliasFirstWriterWins ==
    [][(last'.op = "register") =>
          \A i \in 1..Len(layers) : \A n \in DOMAIN layers[i].types_by_str :
             /\ n \in DOMAIN layers'[i].types_by_str
             /\ layers'[i].types_by_str[n] = layers[i].types_by_str[n]
      ]_vars


(***************************************************************************)
(* The tables of a layer: Base is registered with its subclass as factory, *)
(* an instance of Derived is added, and Derived and int (which cannot be   *)
(* built) are requested and created                                        *)
(***************************************************************************)
\* the calls are made in the base layer and in one scope above it
ScopeAboveBase == 2

ContextOnce == ContextWithin(ScopeAboveBase)

RegistryClasses == {"Derived", "int"}

RegisterBaseAsDerived ==
    \E store \in BOOLEAN : RegisterCall(ClsKey("Base"), ClsKey("Derived"), NoInfo, store, NoKw)

GetRegistry == \E c \in RegistryClasses : Get(ClsKey(c), NoKw, FALSE, FALSE)

CreateRegistry == \E c \in RegistryClasses : CreateCall(ClsKey(c))

NextRegistry ==
    \/ RegisterBaseAsDerived
    \/ AddDerived
    \/ GetRegistry
    \/ CreateRegistry
    \/ ContextOnce
    \/ PopContext

SpecRegistry == Init /\ [][NextRegistry]_vars

\* C28: in every layer each class an alias stands for has a registration,
\* and each class that has an entry in the instance cache has a registration
C28_RegistryInvariant ==
    \A i \in 1..Len(layers) :
       /\ \A n \in DOMAIN layers[i].types_by_str :
             layers[i].types_by_str[n] \in DOMAIN layers[i].types
       /\ \A c \in DOMAIN layers[i].instances : c \in DOMAIN layers[i].types

\* a get of int failed in a layer that holds an added instance of Derived
\* under Derived and its ancestors: int has a registration and an alias, and
\* so have the classes of the instance cache
C28_Witness ==
    /\ last.op = "get"
    /\ last.key = ClsKey("int")
    /\ last.out.kind = "CannotResolve"
    /\ "int" \in DOMAIN layers[Len(layers)].types
    /\ layers[Len(layers)].types_by_str["int"] = "int"
    /\ DOMAIN layers[Len(layers)].instances = {"Derived", "Base", "object"}




(***************************************************************************)
(* Cycles and the exception handlers: the classes of the cycle are          *)
(* requested, C is registered, and a layer may be given a chain in which    *)
(* another resolver follows the TypeHintingResolver                         *)
(***************************************************************************)
\* a resolver that supplies no arguments comes after the TypeHintingResolver
TwoStrategies == <<"TypeHintingResolver", "NoArgs">>

SetTwoStrategies ==
    /\ layers[Len(layers)].resolvers # TwoStrategies
    /\ SetResolversCall(TwoStrategies)

GetInCycle == \E c \in CycleClasses : Get(ClsKey(c), NoKw, FALSE, FALSE)

NextFatal == GetInCycle \/ RegisterC \/ SetTwoStrategies \/ Context \/ PopContext

SpecFatal == Init /\ [][NextFatal]_vars

\* the event carries the exception CircularDependency out of a resolver or
\* out of a resolve
PassesCircular(ev) ==
    \/ ev.e = "raised" /\ ev.n = "CircularDependency"
    \/ ev.e = "exit" /\ ev.out.kind = "CircularDependency"

\* C29: when a get detects a cycle, everything that happens afterwards is
\* that CircularDependency leaves the resolvers and the resolves in
\* progress: no resolver is invoked and no resolve is entered any more, in
\* any layer, and the get raises the CircularDependency of the detection
C29_CircularIsFatal ==
    [][(last'.op = "get") =>
          \A j \in 1..Len(last'.log) :
             (last'.log[j].e = "cycle") =>
                /\ \A q \in (j + 1)..Len(last'.log) : PassesCircular(last'.log[q])
                /\ last'.out.kind = "CircularDependency"
      ]_vars

\* get(A) in a scope whose chain has a second resolver, above a base layer:
\* the cycle was detected three resolves deep and the get raised
\* CircularDependency
C29_Witness ==
    /\ last.op = "get"
    /\ last.key = ClsKey("A")
    /\ Len(layers) = 2
    /\ layers[2].resolvers = TwoStrategies
    /\ last.out = Raise("CircularDependency", "A -> C -> B")
    /\ \E j \in 1..Len(last.log) :
          /\ last.log[j].e = "cycle"
          /\ Len(last.log) >= j + 6






\* C30: when get(B) raises CannotResolve after the resolve of its dependency
\* A failed with CannotResolve, the exception that reaches the caller carries
\* the chain from B down to A
C30_CannotResolveKeepsContext ==
    [][(/\ last'.op = "get"
        /\ last'.key = ClsKey("B")
        /\ last'.out.kind = "CannotResolve"
        /\ \E j \in 1..Len(last'.log) :
              /\ last'.log[j].e = "exit"
              /\ last'.log[j].n = "A"
              /\ last'.log[j].out.kind = "CannotResolve")
          => last'.out.msg = Arrowed(<<"B", "A">>)
      ]_vars


\* the lookups of the key named n among the events of a log
LookupsOf(log, n) == SelectSeq(log, LAMBDA ev : ev.e = "lookup" /\ ev.n = n)

\* C31: a read of the lazy attribute b on an object that has no value for it
\* asks the repository once for the attribute's key and, when that succeeds,
\* keeps the result on the object; a read on an object that has a value
\* returns that value, asks the repository nothing and changes nothing,
\* whatever the layers hold by then
C31_LazyResolvedOnce ==
    [][(last'.op = "read") =>
          IF "b" \in DOMAIN heap[last'.arg].fields
          THEN /\ last'.out = Ok(heap[last'.arg].fields["b"])
               /\ last'.log = <<>>
               /\ layers' = layers
               /\ heap' = heap
          ELSE /\ Len(LookupsOf(last'.log, last'.key.n)) = 1
               /\ last'.log[1].e = "lookup"
               /\ (last'.out.kind = "ok") =>
                     heap'[last'.arg].fields = ("b" :> last'.out.val) @@ heap[last'.arg].fields
               /\ (last'.out.kind # "ok") => heap'[last'.arg] = heap[last'.arg]
      ]_vars

\* a read of b returned the LB the object got at its first read, without a
\* lookup, in a scope whose current LB is another object
C31_Witness ==
    /\ last.op = "read"
    /\ last.log = <<>>
    /\ last.out = Ok(heap[last.arg].fields["b"])
    /\ Len(layers) = 2
    /\ Cache(layers[2], "LB") # <<>>
    /\ Last(Cache(layers[2], "LB")) # last.out.val


(***************************************************************************)
(* The AttributeResolver at work: it is put in front of a layer's chain,   *)
(* and a class with eager and lazy attributes is requested: Eager2         *)
(* declares a lazy attribute, an eager one for int (which the container    *)
(* cannot build, so the caller may add one) and an eager one for           *)
(* Dependency                                                              *)
(***************************************************************************)
GetWithAttributes == Get(ClsKey("Eager2"), NoKw, FALSE, FALSE)

\* the caller adds an int to a layer that holds none
AddIntOnce == ~Holds(layers[Len(layers)], "int") /\ AddObj(1, TRUE)

NextAttribute ==
    \/ GetWithAttributes
    \/ AddAttributeResolver
    \/ AddIntOnce
    \/ Context
    \/ PopContext

SpecAttribute == Init /\ [][NextAttribute]_vars

\* the keys of the descriptors of attrs that are marked non-lazy, in the
\* order of the class namespace
RECURSIVE NonLazyDeps(_)
NonLazyDeps(attrs) ==
    IF attrs = <<>> THEN <<>>
    ELSE (IF attrs[1].lazy THEN <<>> ELSE <<attrs[1].dep.n>>) \o NonLazyDeps(Tail(attrs))

\* what the resolver invoked just before the event q of the log did itself:
\* the keys it asked the repository for (not the lookups of the resolves
\* nested in them) and the position of the event that ends it, 0 when none
RECURSIVE OwnLookups(_, _, _, _)
OwnLookups(log, q, depth, acc) ==
    IF q > Len(log) THEN [lookups |-> acc, end |-> 0]
    ELSE IF log[q].e = "enter" THEN OwnLookups(log, q + 1, depth + 1, acc)
    ELSE IF log[q].e = "exit" THEN OwnLookups(log, q + 1, depth - 1, acc)
    ELSE IF depth = 0 /\ log[q].e = "lookup"
    THEN OwnLookups(log, q + 1, depth, Append(acc, log[q].n))
    ELSE IF depth = 0 /\ log[q].e \in {"raised", "returned"}
    THEN [lookups |-> acc, end |-> q]
    ELSE OwnLookups(log, q + 1, depth, acc)

\* the positions of the log at which an AttributeResolver is invoked
AttributeCalls(log) ==
    {p \in 1..Len(log) : log[p].e = "create" /\ log[p].n = "AttributeResolver"}

\* the class whose resolve is the innermost one in progress at position p
FactoryAt(log, p) == Last(OpenIn(log, p, log[p].lid))

\* the claim as stated: every invocation of the AttributeResolver asks the
\* repository for each non-lazy descriptor of the class, once and for
\* nothing else, and ends by raising PartiallyResolved
C32_AlwaysPartiallyResolved ==
    [][(last'.op = "get") =>
          \A p \in AttributeCalls(last'.log) :
             LET own == OwnLookups(last'.log, p + 1, 0, <<>>)
             IN /\ own.end # 0
                /\ own.lookups = NonLazyDeps(Attributes(FactoryAt(last'.log, p)))
                /\ last'.log[own.end] = Event("raised", "PartiallyResolved", last'.log[p].obj,
                                              last'.log[p].lid)
      ]_vars

\* C32: every invocation of the AttributeResolver asks the repository for
\* the non-lazy descriptors of the class in the order of the namespace and
\* for nothing else, never returns, and raises PartiallyResolved only after
\* it has asked for all of them; when a lookup raises, no further lookup is
\* made and that exception is what the invocation raises
C32_EagerLookups ==
    [][(last'.op = "get") =>
          \A p \in AttributeCalls(last'.log) :
             LET own == OwnLookups(last'.log, p + 1, 0, <<>>)
                 deps == NonLazyDeps(Attributes(FactoryAt(last'.log, p)))
                 end == last'.log[own.end]
                 before == last'.log[own.end - 1]
             IN /\ own.end # 0
                /\ end.e = "raised"
                /\ end.obj = last'.log[p].obj
                /\ end.lid = last'.log[p].lid
                /\ IsPrefix(own.lookups, deps)
                /\ (end.n = "PartiallyResolved") => (own.lookups = deps)
                /\ (end.n # "PartiallyResolved") =>
                      /\ own.lookups # <<>>
                      /\ before.e = "exit"
                      /\ before.out.kind = end.n
      ]_vars

\* a get of Eager2 in a layer without an int: the AttributeResolver asked for
\* int alone and raised the CannotResolve of that lookup, and the get built
\* Eager2 with the next resolver
C32_Witness ==
    /\ last.op = "get"
    /\ last.key = ClsKey("Eager2")
    /\ last.out.kind = "ok"
    /\ \E p \in AttributeCalls(last.log) :
          LET own == OwnLookups(last.log, p + 1, 0, <<>>)
          IN /\ FactoryAt(last.log, p) = "Eager2"
             /\ own.lookups = <<"int">>
             /\ own.end # 0
             /\ last.log[own.end].n = "CannotResolve"






(***************************************************************************)
(* The TypeHintingResolver called on its own, as its tests call it:        *)
(* get_dependencies for a function with defaults, variadic parameters and *)
(* a return annotation, for UnresolvableClass(a: Dependency, b), for       *)
(* Blocked(a: int, b) and for Wrapped, whose variadic __new__ hides        *)
(* __init__(a: Dependency); all_required is a set, iterated in one order   *)
(* or the other; the calls are made in the base layer and one scope above  *)
(***************************************************************************)
HintedFactories == {"function", "UnresolvableClass", "Blocked", "Wrapped"}

\* the caller's kwargs: none, or its own object for b
HintedKwargs == {EmptyMap, "b" :> 1}

GetDependenciesCall(factory, kw, rev) ==
    \E r \in {GetDependencies(World(rev), "TypeHintingResolver", factory, Layered, kw)} :
       /\ Fits(r.w, r.w.log)
       /\ layers' = r.w.layers
       /\ heap' = r.w.heap
       /\ last' = Call("get_dependencies", FnKey(factory), Kw(kw), FALSE, 0, rev,
                       IF r.out.kind = "ok"
                       THEN OkMany([j \in 1..Len(Required(World(rev), factory, kw)) |->
                                       r.deps[Required(World(rev), factory, kw)[j].name]])
                       ELSE r.out,
                       r.w.log)
       /\ hist' = hist \o HistOf(Stored(r.w.log), TRUE)
       /\ UNCHANGED withs

\* a set of fewer than two names is iterated in one order only
GetHinted ==
    \E factory \in HintedFactories : \E kw \in HintedKwargs : \E rev \in BOOLEAN :
       /\ rev => Len(Required(World(FALSE), factory, kw)) > 1
       /\ GetDependenciesCall(factory, kw, rev)

NextHints == GetHinted \/ AddIntOnce \/ ContextOnce \/ PopContext

SpecHints == Init /\ [][NextHints]_vars

\* the names the claim has the strategy resolve
NamesToResolve(f, kw) ==
    LET sig == {Params(f)[j] : j \in 1..Len(Params(f))}
        hinted == {p \in sig : p.ann.k # "none"}
                     \cup {ExtraHints(f)[j] : j \in 1..Len(ExtraHints(f))}
        variadic == VarPositional(f) \cup VarKeyword(f)
        nonvariadic == {p.name : p \in {q \in sig : q.name \notin variadic}}
        defaults == {p.name : p \in {q \in sig : q.default}}
    IN (nonvariadic \cup {p.name : p \in hinted})
          \ (variadic \cup defaults \cup DOMAIN kw \cup {"return"})

\* the annotation of the name n of f, "" when it has none
AnnotationOf(f, n) ==
    LET ps == Params(f) \o ExtraHints(f)
        hs == {j \in 1..Len(ps) : ps[j].name = n /\ ps[j].ann.k # "none"}
    IN IF hs = {} THEN "" ELSE ps[CHOOSE j \in hs : TRUE].ann.c

\* every lookup of the sequence own is the lookup of a name of names, and no
\* two of them are lookups of the same name
LookupsAmong(own, f, names) ==
    \A q \in 1..Len(own) :
       Cardinality({j \in 1..Len(own) : own[j] = own[q]})
          <= Cardinality({n \in names : AnnotationOf(f, n) = own[q]})

Unannotated(f, kw) == {n \in NamesToResolve(f, kw) : AnnotationOf(f, n) = ""}

LatestClasses == {"Derived", "Base"}

AddLatest == \E deep \in BOOLEAN : AddObj(4, deep)

GetLatest == \E c \in LatestClasses : Get(ClsKey(c), NoKw, FALSE, FALSE)

NextLatest == AddLatest \/ GetLatest \/ Context \/ PopContext

SpecLatest == Init /\ [][NextLatest]_vars

\* C34: a get of a class without kwargs, when the instance cache of the
\* current layer has entries for the class, returns the last of them, builds
\* no object and changes no layer
C34_LatestCached ==
    [][(/\ last'.op = "get"
        /\ ~last'.many
        /\ ~last'.kwargs.given
        /\ Cache(layers[Len(layers)], last'.key.n) # <<>>)
          => /\ last'.out = Ok(Last(Cache(layers[Len(layers)], last'.key.n)))
             /\ heap' = heap
             /\ layers' = layers
             /\ \A q \in 1..Len(last'.log) : last'.log[q].e # "made"
      ]_vars

\* get(Base) returned the instance of Derived that a deep add appended to the
\* cache of Base after the Base the container had built
C34_Witness ==
    /\ last.op = "get"
    /\ last.key = ClsKey("Base")
    /\ last.out.kind = "ok"
    /\ \E q \in 1..Len(Cache(layers[Len(layers)], "Base")) :
          heap[Cache(layers[Len(layers)], "Base")[q]].by = "Base"
    /\ last.out.val = 4
    /\ last.out.val = Last(Cache(layers[Len(layers)], "Base"))




\* C35: a get, create, add, register or add_resolver leaves every layer
\* below the topmost one as it was: its registrations, aliases, instance
\* cache and resolvers
C35_LowerLayersUntouched ==
    [][(last'.op \in {"get", "create", "add", "register", "add_resolver"}) =>
          /\ Len(layers') = Len(layers)
          /\ \A i \in 1..(Len(layers) - 1) :
                /\ layers'[i].types = layers[i].types
                /\ layers'[i].types_by_str = layers[i].types_by_str
                /\ layers'[i].instances = layers[i].instances
                /\ layers'[i].resolvers = layers[i].resolvers
      ]_vars


\* C36: the layer that context() pushes has the resolvers of the layer that
\* was the current one, in the same order; add_resolver puts the resolver
\* first in the current layer's list; and no call changes the resolvers of
\* a layer below the current one, nor does a pop change those of the layers
\* it leaves, so that an enclosing layer has after the scope the resolvers it
\* had when the scope was entered
C36_ResolversCopied ==
    [][/\ (last'.op = "context") =>
             /\ Len(layers') = Len(layers) + 1
             /\ layers'[Len(layers')].resolvers = layers[Len(layers)].resolvers
       /\ (last'.op = "add_resolver") =>
             layers'[Len(layers)].resolvers
                = <<last'.key.n>> \o layers[Len(layers)].resolvers
       /\ \A i \in 1..Len(layers) :
             (i < Len(layers) \/ last'.op \notin {"add_resolver", "pop"}) =>
                /\ i <= Len(layers')
                /\ layers'[i].resolvers = layers[i].resolvers
       /\ (last'.op = "pop" /\ Len(layers) > 1) => Len(layers') = Len(layers) - 1
      ]_vars

\* add_resolver inside a scope that was opened above a layer with two
\* resolvers: the scope's layer has three, the enclosing layer its two
C36_Witness ==
    /\ last.op = "add_resolver"
    /\ Len(layers) = 2
    /\ Len(layers[1].resolvers) = 2
    /\ layers[2].resolvers = <<last.key.n>> \o layers[1].resolvers


(***************************************************************************)
(* Ends of a get: a caller that asks for the classes of the constructor     *)
(* cycle and for WantsOptional(d: Optional[Dependency]), registers C, and   *)
(* opens and closes scopes.                                                 *)
(***************************************************************************)
EndingClasses == CycleClasses \cup {"WantsOptional"}

GetEnding == \E c \in EndingClasses : Get(ClsKey(c), NoKw, FALSE, FALSE)

NextEnds == GetEnding \/ RegisterC \/ Context \/ PopContext

SpecEnds == Init /\ [][NextEnds]_vars

\* C37: every get of a class ends with an instance, with CannotResolve or
\* with CircularDependency; every resolve it entered has been left when it
\* ends; and at no moment of the call are there more resolves in progress in
\* a layer than there are classes, so that the fallback from layer to layer
\* cannot go on for ever
C37_GetEnds ==
    [][(last'.op = "get") =>
          /\ last'.out.kind \in {"ok", "CannotResolve", "CircularDependency"}
          /\ \A j \in 1..Len(layers') :
                /\ OpenIn(last'.log, Len(last'.log), layers'[j].id) = <<>>
                /\ \A n \in 1..Len(last'.log) :
                      Len(OpenIn(last'.log, n, layers'[j].id)) <= Cardinality(EndingClasses)
      ]_vars

(***************************************************************************)
(* Lookup stacks: a caller that asks for the classes of the constructor     *)
(* cycle, registers C, and opens and closes one scope.                      *)
(***************************************************************************)
NextStack == GetInCycle \/ RegisterC \/ ContextOnce \/ PopContext

SpecStack == Init /\ [][NextStack]_vars

NoRepeat(s) == \A a, b \in 1..Len(s) : s[a] = s[b] => a = b

\* C38: at every moment of a get, the resolves in progress in a layer are
\* for different classes; when create refuses a class, the lookup stack it
\* reports is the chain of the layer's resolves in progress at that moment,
\* outermost first, and the refused class is on it; and when the get has
\* ended, nothing is in progress and every lookup stack is empty
C38_StackIsChainInProgress ==
    [][(last'.op = "get") =>
          /\ \A p \in 1..Len(last'.log) :
                /\ \A j \in 1..Len(layers') :
                      NoRepeat(OpenIn(last'.log, p, layers'[j].id))
                /\ (last'.log[p].e = "cycle") =>
                      /\ last'.out.kind = "CircularDependency"
                      /\ last'.out.msg
                            = Arrowed(OpenIn(last'.log, p, last'.log[p].lid))
                      /\ InSeq(last'.log[p].n, OpenIn(last'.log, p, last'.log[p].lid))
          /\ \A j \in 1..Len(layers') :
                /\ OpenIn(last'.log, Len(last'.log), layers'[j].id) = <<>>
                /\ layers'[j].lookup_stack = <<>>
      ]_vars

\* a get in a scope during which resolves were in progress in both layers at
\* once: the scope's layer could not resolve a dependency of the class it
\* was creating and the layer below was asked for it
C38_Witness ==
    /\ last.op = "get"
    /\ Len(layers) = 2
    /\ \E p \in 1..Len(last.log) :
          /\ OpenIn(last.log, p, layers[1].id) # <<>>
          /\ OpenIn(last.log, p, layers[2].id) # <<>>

(***************************************************************************)
(* Failing gets: a caller that asks for UnresolvableClass(a: Dependency, b) *)
(* and Blocked(a: int, b), whose parameter b has no annotation, adds an     *)
(* int, and opens and closes scopes.                                        *)
(***************************************************************************)
FailingClasses == {"UnresolvableClass", "Blocked"}

GetFailing ==
    \E c \in FailingClasses : \E rev \in BOOLEAN :
        /\ rev => Len(Params(c)) > 1
        /\ Get(ClsKey(c), NoKw, FALSE, rev)

NextFailing == GetFailing \/ AddIntOnce \/ Context \/ PopContext

SpecFailing == Init /\ [][NextFailing]_vars

\* C39: a get that ends with CannotResolve or CircularDependency leaves the
\* instances of every layer as they were before the call
C39_FailedGetAtomic ==
    [][(/\ last'.op = "get"
        /\ last'.out.kind \in {"CannotResolve", "CircularDependency"})
         => /\ Len(layers') = Len(layers)
            /\ \A j \in 1..Len(layers) : layers'[j].instances = layers[j].instances]_vars



====
